---- MODULE Spec2Model ----
(***************************************************************************)
(* Model of the Cerebras documentation RAG system: the agent              *)
(* (src/src/cerebras_rag/agents/rag_agent.py), the interactive shell     *)
(* (src/src/cerebras_rag/interfaces/cli.py) and the indexing run          *)
(* (src/src/cerebras_rag/utils/populate_vectordb.py).                     *)
(*                                                                         *)
(* Text is modelled as a sequence of tokens (words and single blanks), so *)
(* that lower-casing, trimming and word-boundary matching are computed.   *)
(* The hosted services (vector store, reranker, language model) and the   *)
(* LangGraph checkpointer are black boxes: every call draws its outcome   *)
(* (a failure, or a value within the service's contract) from a set.      *)
(***************************************************************************)
EXTENDS Integers, Sequences, FiniteSets, TLC

VARIABLES
    environ,               \* os.environ: the value of each credential
    index,                 \* the Pinecone index "cerebras-docs": existence and vectors
    vector_store,          \* agent.vector_store is not None
    graph,                 \* agent.graph is not None (then agent.memory exists)
    memory,                \* MemorySaver: thread id -> sequence of messages
    citations_enabled,     \* cli.citations_enabled
    reranking_enabled,     \* cli.reranking_enabled
    running,               \* cli.running
    conversation_history,  \* cli.conversation_history
    cli_pc,                \* position of CerebrasRAGCLI.run
    call,                  \* the operation executed last, with its arguments
    result,                \* what that operation returned
    events,                \* the chunks it yielded (streaming operations)
    trace                  \* the external calls it made, in order, with outcomes

vars == <<environ, index, vector_store, graph, memory, citations_enabled,
          reranking_enabled, running, conversation_history, cli_pc,
          call, result, events, trace>>

agent_vars == <<vector_store, graph, memory>>
cli_vars == <<citations_enabled, reranking_enabled, running,
              conversation_history, cli_pc>>

----------------------------------------------------------------------------
(* Bounds of the model *)

\* documents the index can return in the retrieval specification
NumDocs == 5
\* documents the index can return for a question when a whole answer is computed
AskDocs == 2
\* largest k passed to retrieve_with_citations in the retrieval specification
MaxK == 6
\* messages a thread's log may hold before the model stops asking on it
MaxLog == 6
\* citations in one structured answer of the language model
MaxCites == 2

\* characters in a text given to _clean
MaxText == 4

\* Program constants
DefaultK == 6
TopN == 4

----------------------------------------------------------------------------
(* Helpers *)

Min(a, b) == IF a < b THEN a ELSE b

Prefix(s, n) == SubSeq(s, 1, Min(n, Len(s)))

IsPrefix(s, t) == Len(s) <= Len(t) /\ SubSeq(t, 1, Len(s)) = s

RECURSIVE Calls(_, _)
\* the calls of a trace made to the external function fn
Calls(tr, fn) ==
    IF tr = <<>> THEN <<>>
    ELSE (IF Head(tr).fn = fn THEN <<Head(tr)>> ELSE <<>>) \o Calls(Tail(tr), fn)

\* no operation has been called, nothing has been returned
NoCall == [op |-> "none"]
NoResult == [kind |-> "none"]

----------------------------------------------------------------------------
(* Text *)

BLANK == " "

\* str.lower() on one token
LowerToken(t) ==
    CASE t = "History" -> "history"
      [] t = "What"    -> "what"
      [] t = "Quit"    -> "quit"
      [] t = "I"       -> "i"
      [] t = "Help"    -> "help"
      [] OTHER         -> t

Lower(s) == [i \in 1..Len(s) |-> LowerToken(s[i])]

\* a regular expression of whole words: pat occurs in s at token position i
MatchAt(s, pat, i) ==
    /\ i + Len(pat) - 1 <= Len(s)
    /\ \A j \in 1..Len(pat) : s[i + j - 1] \in pat[j]

Search(s, pat) == \E i \in 1..Len(s) : MatchAt(s, pat, i)

history_patterns ==
    << << {"first"}, {BLANK}, {"message"} >>,
       << {"earlier"} >>,
       << {"previous"} >>,
       << {"what"}, {BLANK}, {"did"}, {BLANK}, {"i"}, {BLANK}, {"say", "ask", "tell"} >>,
       << {"my"}, {BLANK}, {"first", "last", "previous"}, {BLANK}, {"message", "question"} >>,
       << {"our"}, {BLANK}, {"conversation"} >>,
       << {"history"} >>,
       << {"before"} >>,
       << {"remember"}, {BLANK}, {"when"} >>,
       << {"i"}, {BLANK}, {"said", "asked", "told"} >>,
       << {"you"}, {BLANK}, {"said", "told", "answered"} >> >>

is_conversation_history_question(question) ==
    LET question_lower == Lower(question)
    IN  \E p \in 1..Len(history_patterns) : Search(question_lower, history_patterns[p])

RECURSIVE LStrip(_)
LStrip(s) == IF s # <<>> /\ Head(s) = BLANK THEN LStrip(Tail(s)) ELSE s

RECURSIVE RStrip(_)
RStrip(s) ==
    IF s # <<>> /\ s[Len(s)] = BLANK THEN RStrip(SubSeq(s, 1, Len(s) - 1)) ELSE s

\* str.strip()
Strip(s) == RStrip(LStrip(s))

----------------------------------------------------------------------------
(* CerebrasRAGAgent._clean, on texts that are sequences of characters       *)

\* the characters of the texts normalized: a letter, the blank, and the
\* characters the rules name
Chars == {"a", BLANK, "_", "(", ")", ",", "\\"}

\* [A-Za-z], \w, and the class [:;,.\$] within Chars
IsLetter(c) == c = "a"
IsWord(c) == c \in {"a", "_"}
IsPunct(c) == c = ","

RECURSIVE Run(_, _, _)
\* the number of consecutive characters of C in s from position i on
Run(s, i, C) == IF i <= Len(s) /\ s[i] \in C THEN 1 + Run(s, i + 1, C) ELSE 0

RECURSIVE PairRun(_, _)
\* the number of consecutive pairs (letter, blank) in s from position i on
PairRun(s, i) ==
    IF i + 1 <= Len(s) /\ IsLetter(s[i]) /\ s[i + 1] = BLANK
    THEN 1 + PairRun(s, i + 2)
    ELSE 0

\* the length of the match of a rule's pattern that starts at position i of
\* s, 0 when there is none
MatchLen(rule, s, i) ==
    CASE rule = "spaced" ->
            \* (?:\b[A-Za-z]\s){2,}\b[A-Za-z], greedy with backtracking
            LET run == PairRun(s, i)
                g == IF i + 2 * run <= Len(s) /\ IsLetter(s[i + 2 * run])
                     THEN run ELSE run - 1
            IN  IF (i = 1 \/ ~IsWord(s[i - 1])) /\ g >= 2 THEN 2 * g + 1 ELSE 0
      [] rule = "underscores" ->
            \* \s*_+\s*
            LET a == Run(s, i, {BLANK})
                b == Run(s, i + a, {"_"})
                c == Run(s, i + a + b, {BLANK})
            IN  IF b > 0 THEN a + b + c ELSE 0
      [] rule = "whitespace" ->
            \* \s+
            Run(s, i, {BLANK})
      [] rule = "open" ->
            \* \(\s+
            LET a == Run(s, i + 1, {BLANK})
            IN  IF s[i] = "(" /\ a > 0 THEN 1 + a ELSE 0
      [] rule = "close" ->
            \* \s+\)
            LET a == Run(s, i, {BLANK})
            IN  IF a > 0 /\ i + a <= Len(s) /\ s[i + a] = ")" THEN a + 1 ELSE 0
      [] rule = "punctuation" ->
            \* \s*([:;,.\$])\s*
            LET a == Run(s, i, {BLANK})
                c == Run(s, i + a + 1, {BLANK})
            IN  IF i + a <= Len(s) /\ IsPunct(s[i + a]) THEN a + 1 + c ELSE 0
      [] OTHER ->
            \* the backslash of str.replace
            IF s[i] = "\\" THEN 1 ELSE 0

\* what a rule puts in the place of its match of length n at position i
Replacement(rule, s, i, n) ==
    CASE rule = "spaced" -> SelectSeq(SubSeq(s, i, i + n - 1), LAMBDA c : c # BLANK)
      [] rule \in {"underscores", "whitespace"} -> <<BLANK>>
      [] rule = "open" -> <<"(">>
      [] rule = "close" -> <<")">>
      [] rule = "punctuation" -> <<s[i + Run(s, i, {BLANK})], BLANK>>
      [] OTHER -> <<>>

RECURSIVE SubFrom(_, _, _)
\* re.sub from position i on: the leftmost non-overlapping matches replaced
SubFrom(rule, s, i) ==
    IF i > Len(s) THEN <<>>
    ELSE LET n == MatchLen(rule, s, i)
         IN  IF n > 0
             THEN Replacement(rule, s, i, n) \o SubFrom(rule, s, i + n)
             ELSE <<s[i]>> \o SubFrom(rule, s, i + 1)

Sub(rule, s) == SubFrom(rule, s, 1)

\* CerebrasRAGAgent._clean: the seven rules in their order, then strip()
clean(text) ==
    LET t1 == Sub("spaced", text)
        t2 == Sub("underscores", t1)
        t3 == Sub("whitespace", t2)
        t4 == Sub("open", t3)
        t5 == Sub("close", t4)
        t6 == Sub("punctuation", t5)
        t7 == Sub("backslash", t6)
    IN  Strip(t7)

----------------------------------------------------------------------------
(* Documents and the retrieval services *)

\* the index's similarity ranking for a query: the documents 1..n, best first
Ranking(n) == [i \in 1..n |-> i]

Title(d) == <<"title", d>>
Source(d) == <<"url", d>>

\* vector_store.similarity_search(question, k): fails, or returns the best
\* n <= k documents of the ranking
SearchOutcomes(k, n) ==
    {[ok |-> FALSE, docs |-> <<>>]} \cup
    {[ok |-> TRUE, docs |-> Prefix(Ranking(n), m)] : m \in 0..Min(k, n)}

RECURSIVE ByRelevance(_, _)
\* the documents of S ordered by the reranker's relevance score (here: the
\* highest document number first, the reverse of the similarity ranking)
ByRelevance(S, n) ==
    IF n = 0 THEN <<>>
    ELSE (IF n \in S THEN <<n>> ELSE <<>>) \o ByRelevance(S, n - 1)

\* compression_retriever.invoke(question): the base retriever searches again
\* with k, the reranker keeps at most top_n of its candidates, reordered;
\* either step may fail
RerankOutcomes(k, n) ==
    {[ok |-> FALSE, docs |-> <<>>]} \cup
    {[ok |-> TRUE, docs |-> ByRelevance(S, n)] :
        S \in {T \in SUBSET (1..Min(k, n)) : Cardinality(T) <= TopN}}

\* a variant that returns the similarity-search result even when the
\* reranker has answered
retrieve_ignoring_rerank(vs, cohere, k, use_reranking, search, rerank) ==
    IF ~vs THEN [docs |-> <<>>, trace |-> <<>>]
    ELSE LET s == [fn |-> "similarity_search", k |-> k, ok |-> search.ok,
                   docs |-> search.docs]
             r == [fn |-> "rerank", k |-> k, ok |-> rerank.ok, docs |-> rerank.docs]
         IN  IF ~search.ok THEN [docs |-> <<>>, trace |-> <<s>>]
             ELSE IF use_reranking /\ cohere
                  THEN [docs |-> search.docs, trace |-> <<s, r>>]
                  ELSE [docs |-> search.docs, trace |-> <<s>>]

\* a variant whose inner except clause is missing: a failing reranker is
\* caught by the outer one and the result is empty
retrieve_failing_with_rerank(vs, cohere, k, use_reranking, search, rerank) ==
    IF ~vs THEN [docs |-> <<>>, trace |-> <<>>]
    ELSE LET s == [fn |-> "similarity_search", k |-> k, ok |-> search.ok,
                   docs |-> search.docs]
             r == [fn |-> "rerank", k |-> k, ok |-> rerank.ok, docs |-> rerank.docs]
         IN  IF ~search.ok THEN [docs |-> <<>>, trace |-> <<s>>]
             ELSE IF use_reranking /\ cohere
                  THEN IF rerank.ok
                       THEN [docs |-> rerank.docs, trace |-> <<s, r>>]
                       ELSE [docs |-> <<>>, trace |-> <<s, r>>]
                  ELSE [docs |-> search.docs, trace |-> <<s>>]

\* CerebrasRAGAgent.retrieve_with_citations. vs: the vector store is set;
\* cohere: COHERE_API_KEY is set; search, rerank: the outcomes of the calls.
\* A vector store of None raises AttributeError inside the outer try.
retrieve_with_citations(vs, cohere, k, use_reranking, search, rerank) ==
    IF ~vs THEN [docs |-> <<>>, trace |-> <<>>]
    ELSE LET s == [fn |-> "similarity_search", k |-> k, ok |-> search.ok,
                   docs |-> search.docs]
             r == [fn |-> "rerank", k |-> k, ok |-> rerank.ok, docs |-> rerank.docs]
         IN  IF ~search.ok THEN [docs |-> <<>>, trace |-> <<s>>]
             ELSE IF use_reranking /\ cohere
                  THEN IF rerank.ok
                       THEN [docs |-> rerank.docs, trace |-> <<s, r>>]
                       ELSE [docs |-> search.docs, trace |-> <<s, r>>]
                  ELSE [docs |-> search.docs, trace |-> <<s>>]

----------------------------------------------------------------------------
(* Messages, answers and the language model *)

HumanMessage(c) == [role |-> "human", content |-> c]
AIMessage(c) == [role |-> "ai", content |-> c]

QuotedAnswer(a, c) == [kind |-> "QuotedAnswer", answer |-> a, citations |-> c]

Citation(id, q) == [source_id |-> id, quote |-> q]

\* texts the language model may produce
Texts == {<<>>, <<"a1">>}

\* the text the model produces when call_model invokes it on a thread's state
REPLY == <<"reply">>

\* str(e) of an exception raised by an external call
ERR == "err"

NO_HISTORY ==
    <<"I don't have any conversation history to reference.", BLANK,
      "This appears to be the start of our conversation.">>
NO_DOCUMENTS ==
    <<"No relevant documents found.", BLANK,
      "Please check if the vector database is populated.">>
GenerationError(e) == <<"I encountered an error generating a response:", BLANK, e>>
ProcessingError(e) == <<"An error occurred while processing your question:", BLANK, e>>
StreamError(e) == <<"An error occurred:", BLANK, e>>
MemoryWarning(e) == <<"Failed to save to memory:", BLANK, e>>

\* source ids a model may cite for n documents: below -n, negative, first,
\* last, and the first one past the end
SourceIds(n) == {0 - n - 1, 0 - 1, 0, n - 1, n}

RECURSIVE SeqsUpTo(_, _)
\* the sequences over S of length at most n
SeqsUpTo(S, n) ==
    IF n = 0 THEN {<<>>}
    ELSE LET shorter == SeqsUpTo(S, n - 1)
         IN  shorter \cup {Append(q, e) : q \in shorter, e \in S}

\* chain.invoke of the structured-output chain: fails (the call, or parsing
\* its output into QuotedAnswer), or returns a QuotedAnswer with any citations
\* over n documents, with at most m citations
GenOutcomes(n, m) ==
    {[ok |-> FALSE, answer |-> <<>>, citations |-> <<>>]} \cup
    {[ok |-> TRUE, answer |-> t, citations |-> c] :
        t \in Texts,
        c \in SeqsUpTo({Citation(id, "quote") : id \in SourceIds(n)}, m)}

\* llm.invoke(messages): fails, or returns a message with some text
LlmOutcomes ==
    {[ok |-> FALSE, content |-> <<>>]} \cup {[ok |-> TRUE, content |-> t] : t \in Texts}

\* graph.invoke / graph.stream on the compiled graph: the call is rejected
\* before anything is stored, or the input is checkpointed and the call_model
\* node then fails, or the node's response is stored as well
WriteOutcomes ==
    {[kind |-> "rejected", content |-> <<>>], [kind |-> "model_failed", content |-> <<>>]}
    \cup {[kind |-> "ok", content |-> REPLY]}

\* CerebrasRAGAgent.format_docs_with_id: every document with its zero-based
\* position as Source ID
format_docs_with_id(docs) ==
    [i \in 1..Len(docs) |->
        [source_id |-> i - 1, title |-> Title(docs[i]), source |-> Source(docs[i]),
         content |-> docs[i]]]

\* a variant without the try block: the exception of a failing chain leaves
\* the function
generate_without_fallback(question, documents, use_structured_output, gen) ==
    LET context == format_docs_with_id(documents)
        c == [fn |-> "chain.invoke", input |-> [context |-> context, question |-> question]]
    IN  IF gen.ok
        THEN [response |-> IF use_structured_output
                           THEN QuotedAnswer(gen.answer, gen.citations)
                           ELSE [kind |-> "AIMessage", content |-> gen.answer],
              trace |-> <<c>>]
        ELSE [response |-> [kind |-> "exception", answer |-> <<>>, citations |-> <<>>],
              trace |-> <<c>>]

\* CerebrasRAGAgent.generate_with_citations
generate_with_citations(question, documents, use_structured_output, gen) ==
    LET context == format_docs_with_id(documents)
        c == [fn |-> "chain.invoke", input |-> [context |-> context, question |-> question]]
    IN  IF gen.ok
        THEN [response |-> IF use_structured_output
                           THEN QuotedAnswer(gen.answer, gen.citations)
                           ELSE [kind |-> "AIMessage", content |-> gen.answer],
              trace |-> <<c>>]
        ELSE [response |-> IF use_structured_output
                           THEN QuotedAnswer(GenerationError(ERR), <<>>)
                           ELSE [kind |-> "dict", answer |-> GenerationError(ERR)],
              trace |-> <<c>>]

----------------------------------------------------------------------------
(* Conversation memory: the compiled graph START -> call_model with a       *)
(* MemorySaver checkpointer over MessagesState (messages are appended)      *)

Threads == {"1", "cli_session"}

DEFAULT_THREAD == "1"

\* a variant that ignores the config it is given
thread_id_ignoring_config(config) == DEFAULT_THREAD

\* config is None or {"configurable": {"thread_id": t}}
thread_id(config) == IF config = "None" THEN DEFAULT_THREAD ELSE config

\* a variant whose state has no reducer: the input replaces the messages of
\* the thread
graph_invoke_replacing(mem, thread, input, w) ==
    LET state == input
        g == [fn |-> "graph.invoke", thread |-> thread, input |-> input]
        m == [fn |-> "llm.invoke", input |-> state]
    IN  CASE w.kind = "rejected" ->
                [ok |-> FALSE, memory |-> mem, messages |-> <<>>, trace |-> <<g>>]
          [] w.kind = "model_failed" ->
                [ok |-> FALSE, memory |-> [mem EXCEPT ![thread] = state],
                 messages |-> <<>>, trace |-> <<g, m>>]
          [] OTHER ->
                LET final == Append(state, AIMessage(w.content))
                IN  [ok |-> TRUE, memory |-> [mem EXCEPT ![thread] = final],
                     messages |-> final, trace |-> <<g, m>>]

\* CerebrasRAGAgent._call_model inside graph.invoke: the input messages are
\* appended to the thread's state, the model is invoked on all messages of
\* the state and its response is appended too
graph_invoke(mem, thread, input, w) ==
    LET state == mem[thread] \o input
        g == [fn |-> "graph.invoke", thread |-> thread, input |-> input]
        m == [fn |-> "llm.invoke", input |-> state]
    IN  CASE w.kind = "rejected" ->
                [ok |-> FALSE, memory |-> mem, messages |-> <<>>, trace |-> <<g>>]
          [] w.kind = "model_failed" ->
                [ok |-> FALSE, memory |-> [mem EXCEPT ![thread] = state],
                 messages |-> <<>>, trace |-> <<g, m>>]
          [] OTHER ->
                LET final == Append(state, AIMessage(w.content))
                IN  [ok |-> TRUE, memory |-> [mem EXCEPT ![thread] = final],
                     messages |-> final, trace |-> <<g, m>>]

\* CerebrasRAGAgent.get_conversation_history
get_conversation_history(g, mem, thread, readOk) ==
    IF ~g THEN [history |-> <<>>, trace |-> <<>>]
    ELSE [history |-> IF readOk THEN mem[thread] ELSE <<>>,
          trace |-> <<[fn |-> "graph.get_state", input |-> thread, ok |-> readOk]>>]

RoleName(msg) == IF msg.role = "human" THEN "Human" ELSE "Assistant"

\* the history prompt: the question and one "role: content" line per message
HistoryPrompt(question, history) ==
    [question |-> question,
     lines |-> [i \in 1..Len(history) |-> <<RoleName(history[i]), history[i].content>>]]

----------------------------------------------------------------------------
(* CerebrasRAGAgent.ask_question                                            *)
(* x holds the outcomes of the external calls the path makes: x.read,       *)
(* x.llm, x.search, x.rerank, x.gen, x.write. The body of the try block     *)
(* returns raised = TRUE where an exception leaves it.                      *)

\* the memory write that follows an answer: skipped when there is no graph
save_exchange(g, mem, thread, question, answer, w) ==
    IF g THEN graph_invoke(mem, thread, <<HumanMessage(question), AIMessage(answer)>>, w)
    ELSE [ok |-> TRUE, memory |-> mem, messages |-> <<>>, trace |-> <<>>]

\* the record of an internal call to retrieve_with_citations and what it returned
Retrieved(docs) == [fn |-> "retrieve_with_citations", docs |-> docs]

\* a variant without the test of lines 526-530: the model is asked even when
\* there is no history
ask_history_unchecked(g, mem, question, thread, x) ==
    LET h == get_conversation_history(g, mem, thread, x.read)
        c == [fn |-> "llm.invoke",
              input |-> <<HumanMessage(HistoryPrompt(question, h.history))>>]
    IN  IF ~x.llm.ok
        THEN [raised |-> TRUE, result |-> NoResult, memory |-> mem,
              trace |-> h.trace \o <<c>>]
        ELSE LET w == save_exchange(g, mem, thread, question, x.llm.content, x.write)
             IN  [raised |-> ~w.ok, result |-> QuotedAnswer(x.llm.content, <<>>),
                  memory |-> w.memory, trace |-> h.trace \o <<c>> \o w.trace]

\* lines 524-552: a question about the conversation history
ask_history(g, mem, question, thread, x) ==
    LET h == get_conversation_history(g, mem, thread, x.read)
        c == [fn |-> "llm.invoke",
              input |-> <<HumanMessage(HistoryPrompt(question, h.history))>>]
    IN  IF h.history = <<>>
        THEN [raised |-> FALSE, result |-> QuotedAnswer(NO_HISTORY, <<>>),
              memory |-> mem, trace |-> h.trace]
        ELSE IF ~x.llm.ok
        THEN [raised |-> TRUE, result |-> NoResult, memory |-> mem,
              trace |-> h.trace \o <<c>>]
        ELSE LET w == save_exchange(g, mem, thread, question, x.llm.content, x.write)
             IN  [raised |-> ~w.ok, result |-> QuotedAnswer(x.llm.content, <<>>),
                  memory |-> w.memory, trace |-> h.trace \o <<c>> \o w.trace]

\* a variant without the test of lines 557-561: generation is invoked on
\* an empty document list
ask_cited_unchecked(cohere, vs, g, mem, question, use_reranking, thread, x) ==
    LET r == retrieve_with_citations(vs, cohere, DefaultK, use_reranking, x.search, x.rerank)
        t == r.trace \o <<Retrieved(r.docs)>>
        a == generate_with_citations(question, r.docs, TRUE, x.gen)
        w == save_exchange(g, mem, thread, question, a.response.answer, x.write)
    IN  [raised |-> ~w.ok, result |-> a.response, memory |-> w.memory,
         trace |-> t \o a.trace \o w.trace]

\* a variant that records the exchange of a question whose retrieval is empty
ask_cited_recording_miss(cohere, vs, g, mem, question, use_reranking, thread, x) ==
    LET r == retrieve_with_citations(vs, cohere, DefaultK, use_reranking, x.search, x.rerank)
        t == r.trace \o <<Retrieved(r.docs)>>
    IN  IF r.docs = <<>>
        THEN LET w == save_exchange(g, mem, thread, question, NO_DOCUMENTS,
                                    [kind |-> "ok", content |-> REPLY])
             IN  [raised |-> FALSE, result |-> QuotedAnswer(NO_DOCUMENTS, <<>>),
                  memory |-> w.memory, trace |-> t \o w.trace]
        ELSE LET a == generate_with_citations(question, r.docs, TRUE, x.gen)
                 w == save_exchange(g, mem, thread, question, a.response.answer, x.write)
             IN  [raised |-> ~w.ok, result |-> a.response, memory |-> w.memory,
                  trace |-> t \o a.trace \o w.trace]

\* a variant that returns the generated answer although its memory write failed
ask_cited_tolerating_write(cohere, vs, g, mem, question, use_reranking, thread, x) ==
    LET r == retrieve_with_citations(vs, cohere, DefaultK, use_reranking, x.search, x.rerank)
        t == r.trace \o <<Retrieved(r.docs)>>
    IN  IF r.docs = <<>>
        THEN [raised |-> FALSE, result |-> QuotedAnswer(NO_DOCUMENTS, <<>>),
              memory |-> mem, trace |-> t]
        ELSE LET a == generate_with_citations(question, r.docs, TRUE, x.gen)
                 w == save_exchange(g, mem, thread, question, a.response.answer, x.write)
             IN  [raised |-> FALSE, result |-> a.response, memory |-> w.memory,
                  trace |-> t \o a.trace \o w.trace]

\* lines 555-574: a regular question answered from retrieved documents
ask_cited(cohere, vs, g, mem, question, use_reranking, thread, x) ==
    LET r == retrieve_with_citations(vs, cohere, DefaultK, use_reranking, x.search, x.rerank)
        t == r.trace \o <<Retrieved(r.docs)>>
    IN  IF r.docs = <<>>
        THEN [raised |-> FALSE, result |-> QuotedAnswer(NO_DOCUMENTS, <<>>),
              memory |-> mem, trace |-> t]
        ELSE LET a == generate_with_citations(question, r.docs, TRUE, x.gen)
                 w == save_exchange(g, mem, thread, question, a.response.answer, x.write)
             IN  [raised |-> ~w.ok, result |-> a.response, memory |-> w.memory,
                  trace |-> t \o a.trace \o w.trace]

\* lines 576-586: a regular question sent to the model without retrieval
ask_direct(g, mem, question, thread, x) ==
    IF g
    THEN LET w == graph_invoke(mem, thread, <<HumanMessage(question)>>, x.write)
         IN  [raised |-> ~w.ok,
              result |-> IF w.ok
                         THEN QuotedAnswer(w.messages[Len(w.messages)].content, <<>>)
                         ELSE NoResult,
              memory |-> w.memory, trace |-> w.trace]
    ELSE LET c == [fn |-> "llm.invoke", input |-> <<HumanMessage(question)>>]
         IN  [raised |-> ~x.llm.ok, result |-> QuotedAnswer(x.llm.content, <<>>),
              memory |-> mem, trace |-> <<c>>]

\* lines 522-586: the body of the try block
ask_body(cohere, vs, g, mem, question, use_citations, use_reranking, thread, x) ==
    IF is_conversation_history_question(question)
    THEN ask_history(g, mem, question, thread, x)
    ELSE IF use_citations
    THEN ask_cited(cohere, vs, g, mem, question, use_reranking, thread, x)
    ELSE ask_direct(g, mem, question, thread, x)

\* lines 505-592: every exception of the body becomes an error Answer
ask_question(cohere, vs, g, mem, question, use_citations, use_reranking, config, x) ==
    LET b == ask_body(cohere, vs, g, mem, question, use_citations, use_reranking,
                      thread_id(config), x)
    IN  [result |-> IF b.raised THEN QuotedAnswer(ProcessingError(ERR), <<>>)
                    ELSE b.result,
         memory |-> b.memory, trace |-> b.trace]

----------------------------------------------------------------------------
(* CerebrasRAGAgent.stream_response_with_citations                          *)

Status(m) == [type |-> "status", message |-> m]
AnswerEvent(c) == [type |-> "answer", content |-> c]
ErrorEvent(m) == [type |-> "error", message |-> m]
WarningEvent(m) == [type |-> "warning", message |-> m]
CitationsHeader == [type |-> "citations_header"]

\* documents[i] of a Python list of length Len(docs), for -Len(docs) <= i < Len(docs)
PyIndex(docs, i) == IF i >= 0 THEN docs[i + 1] ELSE docs[Len(docs) + i + 1]

RECURSIVE citation_events(_, _)
\* lines 409-421: one citation chunk per citation whose source_id is below
\* len(documents); an index below -len(documents) raises IndexError and ends
\* the loop
citation_events(cites, docs) ==
    IF cites = <<>> THEN [events |-> <<>>, raised |-> FALSE]
    ELSE LET c == Head(cites)
         IN  IF c.source_id < Len(docs)
             THEN IF c.source_id < 0 - Len(docs)
                  THEN [events |-> <<>>, raised |-> TRUE]
                  ELSE LET doc == PyIndex(docs, c.source_id)
                           e == [type |-> "citation", source_id |-> c.source_id,
                                 quote |-> c.quote, title |-> Title(doc),
                                 url |-> Source(doc)]
                           rest == citation_events(Tail(cites), docs)
                       IN  [events |-> <<e>> \o rest.events, raised |-> rest.raised]
             ELSE citation_events(Tail(cites), docs)

\* the try/except around the memory write of the streaming paths: a failure
\* becomes a warning chunk
save_or_warn(g, mem, thread, question, answer, w) ==
    LET s == save_exchange(g, mem, thread, question, answer, w)
    IN  [events |-> IF s.ok THEN <<>> ELSE <<WarningEvent(MemoryWarning(ERR))>>,
         memory |-> s.memory, trace |-> s.trace]

\* lines 456-503: _handle_history_question; a failing model call leaves it
\* as an exception
handle_history_question(g, mem, question, thread, x) ==
    LET h == get_conversation_history(g, mem, thread, x.read)
        c == [fn |-> "llm.invoke",
              input |-> <<HumanMessage(HistoryPrompt(question, h.history))>>]
        s == <<Status("Searching conversation history...")>>
    IN  IF h.history = <<>>
        THEN [raised |-> FALSE, events |-> s \o <<AnswerEvent(NO_HISTORY)>>,
              memory |-> mem, trace |-> h.trace]
        ELSE IF ~x.llm.ok
        THEN [raised |-> TRUE, events |-> s, memory |-> mem, trace |-> h.trace \o <<c>>]
        ELSE LET w == save_or_warn(g, mem, thread, question, x.llm.content, x.write)
             IN  [raised |-> FALSE,
                  events |-> s \o <<AnswerEvent(x.llm.content)>> \o w.events,
                  memory |-> w.memory, trace |-> h.trace \o <<c>> \o w.trace]

\* a variant that retrieves again before it resolves the citations, and gets
\* the documents in the opposite order
stream_cited_retrieving_twice(cohere, vs, g, mem, question, use_reranking, thread, x) ==
    LET r == retrieve_with_citations(vs, cohere, DefaultK, use_reranking, x.search, x.rerank)
        t == r.trace \o <<Retrieved(r.docs)>>
        again == [i \in 1..Len(r.docs) |-> r.docs[Len(r.docs) + 1 - i]]
        s1 == <<Status("Retrieving relevant documentation...")>>
    IN  IF r.docs = <<>>
        THEN [raised |-> FALSE, events |-> s1 \o <<ErrorEvent(NO_DOCUMENTS)>>,
              memory |-> mem, trace |-> t]
        ELSE LET a == generate_with_citations(question, r.docs, TRUE, x.gen)
                 s2 == <<Status(<<"Retrieved", Len(r.docs)>>),
                         Status("Generating response with citations...")>>
                 head == s1 \o s2 \o <<AnswerEvent(a.response.answer)>>
                 cs == citation_events(a.response.citations, again)
                 cited == IF a.response.citations = <<>> THEN <<>>
                          ELSE <<CitationsHeader>> \o cs.events
             IN  IF cs.raised
                 THEN [raised |-> TRUE, events |-> head \o cited, memory |-> mem,
                       trace |-> t \o a.trace \o <<Retrieved(again)>>]
                 ELSE LET w == save_or_warn(g, mem, thread, question,
                                            a.response.answer, x.write)
                      IN  [raised |-> FALSE, events |-> head \o cited \o w.events,
                           memory |-> w.memory,
                           trace |-> t \o a.trace \o <<Retrieved(again)>> \o w.trace]

\* a variant that starts the memory write before the answer is generated
stream_cited_saving_early(cohere, vs, g, mem, question, use_reranking, thread, x) ==
    LET r == retrieve_with_citations(vs, cohere, DefaultK, use_reranking, x.search, x.rerank)
        t == r.trace \o <<Retrieved(r.docs)>>
        s1 == <<Status("Retrieving relevant documentation...")>>
    IN  IF r.docs = <<>>
        THEN [raised |-> FALSE, events |-> s1 \o <<ErrorEvent(NO_DOCUMENTS)>>,
              memory |-> mem, trace |-> t]
        ELSE LET a == generate_with_citations(question, r.docs, TRUE, x.gen)
                 s2 == <<Status(<<"Retrieved", Len(r.docs)>>),
                         Status("Generating response with citations...")>>
                 head == s1 \o s2 \o <<AnswerEvent(a.response.answer)>>
                 cs == citation_events(a.response.citations, r.docs)
                 cited == IF a.response.citations = <<>> THEN <<>>
                          ELSE <<CitationsHeader>> \o cs.events
                 w == save_or_warn(g, mem, thread, question, a.response.answer, x.write)
             IN  [raised |-> cs.raised, events |-> head \o cited \o w.events,
                  memory |-> w.memory, trace |-> t \o w.trace \o a.trace]

\* a variant that emits the citations header only when a citation chunk follows
stream_cited_header_when_cited(cohere, vs, g, mem, question, use_reranking, thread, x) ==
    LET r == retrieve_with_citations(vs, cohere, DefaultK, use_reranking, x.search, x.rerank)
        t == r.trace \o <<Retrieved(r.docs)>>
        s1 == <<Status("Retrieving relevant documentation...")>>
    IN  IF r.docs = <<>>
        THEN [raised |-> FALSE, events |-> s1 \o <<ErrorEvent(NO_DOCUMENTS)>>,
              memory |-> mem, trace |-> t]
        ELSE LET a == generate_with_citations(question, r.docs, TRUE, x.gen)
                 s2 == <<Status(<<"Retrieved", Len(r.docs)>>),
                         Status("Generating response with citations...")>>
                 head == s1 \o s2 \o <<AnswerEvent(a.response.answer)>>
                 cs == citation_events(a.response.citations, r.docs)
                 cited == IF cs.events = <<>> THEN <<>>
                          ELSE <<CitationsHeader>> \o cs.events
             IN  IF cs.raised
                 THEN [raised |-> TRUE, events |-> head \o cited, memory |-> mem,
                       trace |-> t \o a.trace]
                 ELSE LET w == save_or_warn(g, mem, thread, question,
                                            a.response.answer, x.write)
                      IN  [raised |-> FALSE, events |-> head \o cited \o w.events,
                           memory |-> w.memory, trace |-> t \o a.trace \o w.trace]

\* lines 387-433: retrieval, generation, citation chunks, memory write
stream_cited(cohere, vs, g, mem, question, use_reranking, thread, x) ==
    LET r == retrieve_with_citations(vs, cohere, DefaultK, use_reranking, x.search, x.rerank)
        t == r.trace \o <<Retrieved(r.docs)>>
        s1 == <<Status("Retrieving relevant documentation...")>>
    IN  IF r.docs = <<>>
        THEN [raised |-> FALSE, events |-> s1 \o <<ErrorEvent(NO_DOCUMENTS)>>,
              memory |-> mem, trace |-> t]
        ELSE LET a == generate_with_citations(question, r.docs, TRUE, x.gen)
                 s2 == <<Status(<<"Retrieved", Len(r.docs)>>),
                         Status("Generating response with citations...")>>
                 head == s1 \o s2 \o <<AnswerEvent(a.response.answer)>>
                 cs == citation_events(a.response.citations, r.docs)
                 cited == IF a.response.citations = <<>> THEN <<>>
                          ELSE <<CitationsHeader>> \o cs.events
             IN  IF cs.raised
                 THEN [raised |-> TRUE, events |-> head \o cited, memory |-> mem,
                       trace |-> t \o a.trace]
                 ELSE LET w == save_or_warn(g, mem, thread, question,
                                            a.response.answer, x.write)
                      IN  [raised |-> FALSE, events |-> head \o cited \o w.events,
                           memory |-> w.memory, trace |-> t \o a.trace \o w.trace]

\* lines 435-451: the model's reply through the graph (stream_mode "values":
\* the state after the input ends in a HumanMessage and yields nothing), or
\* directly when there is no graph
stream_direct(g, mem, question, thread, x) ==
    LET s == <<Status("Generating response...")>>
    IN  IF g
        THEN LET w == graph_invoke(mem, thread, <<HumanMessage(question)>>, x.write)
             IN  [raised |-> ~w.ok,
                  events |-> s \o (IF w.ok
                                   THEN <<AnswerEvent(w.messages[Len(w.messages)].content)>>
                                   ELSE <<>>),
                  memory |-> w.memory, trace |-> w.trace]
        ELSE LET c == [fn |-> "llm.invoke", input |-> <<HumanMessage(question)>>]
             IN  [raised |-> ~x.llm.ok,
                  events |-> s \o (IF x.llm.ok THEN <<AnswerEvent(x.llm.content)>>
                                   ELSE <<>>),
                  memory |-> mem, trace |-> <<c>>]

\* lines 380-451: the body of the try block
stream_body(cohere, vs, g, mem, question, use_citations, use_reranking, thread, x) ==
    IF is_conversation_history_question(question)
    THEN handle_history_question(g, mem, question, thread, x)
    ELSE IF use_citations
    THEN stream_cited(cohere, vs, g, mem, question, use_reranking, thread, x)
    ELSE stream_direct(g, mem, question, thread, x)

\* lines 363-454: every exception of the body becomes a final error chunk
stream_response_with_citations(cohere, vs, g, mem, question, use_citations, use_reranking, config, x) ==
    LET b == stream_body(cohere, vs, g, mem, question, use_citations, use_reranking,
                         thread_id(config), x)
    IN  [events |-> IF b.raised THEN Append(b.events, ErrorEvent(StreamError(ERR)))
                    ELSE b.events,
         memory |-> b.memory, trace |-> b.trace]

----------------------------------------------------------------------------
(* Inputs and outcomes drawn by the actions *)

WHAT_IS == <<"What", BLANK, "is", BLANK, "cerebras">>
FIRST_QUESTION == <<"what", BLANK, "was", BLANK, "my", BLANK, "first", BLANK, "question">>

RegularQuestions == {WHAT_IS}
HistoryQuestions == {FIRST_QUESTION}
Questions == RegularQuestions \cup HistoryQuestions

Configs == {"None", "cli_session"}

Keys == {"OPENROUTER_API_KEY", "PINECONE_API_KEY", "COHERE_API_KEY"}

\* what os.getenv returns for a key: None when it is unset, the empty string
\* (a line "KEY=" of the .env file), or a secret
EnvValues == {"None", "", "secret"}

\* the truth value Python gives to a value of the environment
Truthy(v) == v \notin {"None", ""}

getenv(key) == environ[key]

\* every key set to a secret
AllSet == [k \in Keys |-> "secret"]

NotCalled == [ok |-> FALSE, kind |-> "rejected", content |-> <<>>, docs |-> <<>>,
              answer |-> <<>>, citations |-> <<>>]

Oracle(rd, l, s, r, gn, w) ==
    [read |-> rd, llm |-> l, search |-> s, rerank |-> r, gen |-> gn, write |-> w]

\* the outcomes of the external calls a history question can reach
HistoryOracles(g, mem, thread) ==
    UNION {
      LET some == get_conversation_history(g, mem, thread, rd).history # <<>>
      IN  UNION {
            {Oracle(rd, l, NotCalled, NotCalled, NotCalled, w) :
                w \in IF some /\ l.ok /\ g THEN WriteOutcomes ELSE {NotCalled}}
            : l \in IF some THEN LlmOutcomes ELSE {NotCalled}}
      : rd \in IF g THEN BOOLEAN ELSE {TRUE}}

\* the outcomes of the similarity search of a cited answer over an index of
\* n documents
CitedSearches(vs, n) == IF vs THEN SearchOutcomes(DefaultK, n) ELSE {NotCalled}

\* the outcomes of the reranking that follows the search outcome s
CitedReranks(cohere, use_reranking, n, s) ==
    IF s.ok /\ use_reranking /\ cohere THEN RerankOutcomes(DefaultK, n) ELSE {NotCalled}

\* the outcomes of the generation over the documents retrieved, with at most
\* m citations
CitedGenerations(docs, m) ==
    IF docs # <<>> THEN GenOutcomes(Len(docs), m) ELSE {NotCalled}

\* the outcomes of the memory write that follows the generation
CitedWrites(g, docs) == IF docs # <<>> /\ g THEN WriteOutcomes ELSE {NotCalled}

\* the outcomes of the external calls a cited answer can reach
CitedOracles(cohere, vs, g, use_reranking, n, m) ==
    UNION {
      UNION {
        LET docs == retrieve_with_citations(vs, cohere, DefaultK, use_reranking, s, r).docs
        IN  {Oracle(TRUE, NotCalled, s, r, gn, w) :
                gn \in CitedGenerations(docs, m), w \in CitedWrites(g, docs)}
        : r \in CitedReranks(cohere, use_reranking, n, s)}
      : s \in CitedSearches(vs, n)}

\* the outcomes of the external calls a direct answer can reach
DirectOracles(g) ==
    {Oracle(TRUE, l, NotCalled, NotCalled, NotCalled, w) :
        l \in IF g THEN {NotCalled} ELSE LlmOutcomes,
        w \in IF g THEN WriteOutcomes ELSE {NotCalled}}

\* the outcomes a question can reach. The specifications that follow the
\* conversation over several questions draw every cited answer over an index
\* of one document, with at most one citation; SpecPure draws them over
\* AskDocs documents and MaxCites citations.
Oracles(cohere, vs, g, mem, question, use_citations, use_reranking, config) ==
    IF is_conversation_history_question(question)
    THEN HistoryOracles(g, mem, thread_id(config))
    ELSE IF use_citations
    THEN CitedOracles(cohere, vs, g, use_reranking, 1, 1)
    ELSE DirectOracles(g)

RECURSIVE TotalLog(_, _)
\* the number of messages stored in the threads of T
TotalLog(mem, T) ==
    IF T = {} THEN 0
    ELSE LET t == CHOOSE u \in T : TRUE
         IN  Len(mem[t]) + TotalLog(mem, T \ {t})

\* the model asks a question only while three more messages fit the bound
Room(mem) == TotalLog(mem, Threads) + 3 <= MaxLog

----------------------------------------------------------------------------
(* State after construction *)

Idle == call = NoCall

\* CerebrasRAGAgent.__init__ and CerebrasRAGCLI.__init__
\* the hosted index before anything was written to it
NoIndex == [exists |-> FALSE, vectors |-> {}]

Constructed ==
    /\ vector_store = FALSE
    /\ graph = FALSE
    /\ memory = [t \in Threads |-> <<>>]
    /\ citations_enabled = TRUE
    /\ reranking_enabled = FALSE
    /\ running = TRUE
    /\ conversation_history = <<>>
    /\ cli_pc = "constructed"
    /\ call = NoCall
    /\ result = NoResult
    /\ events = <<>>
    /\ trace = <<>>

----------------------------------------------------------------------------
(* The agent's operations, called directly *)

\* the caller takes the returned value; the next operation starts afresh
Return ==
    /\ ~Idle
    /\ call' = NoCall
    /\ result' = NoResult
    /\ events' = <<>>
    /\ trace' = <<>>
    /\ UNCHANGED <<environ, index, agent_vars, cli_vars>>

\* a variant that connects to the index without looking at its vector count
initialize_vector_store_unchecked(vs, has_index, vector_count) ==
    IF vs
    THEN [ok |-> TRUE, message |-> "Already initialized", vector_store |-> TRUE,
          trace |-> <<>>]
    ELSE IF ~has_index
    THEN [ok |-> FALSE, message |-> "not found", vector_store |-> FALSE,
          trace |-> <<[fn |-> "pc.has_index"]>>]
    ELSE [ok |-> TRUE, message |-> "Connected successfully", vector_store |-> TRUE,
          trace |-> <<[fn |-> "pc.has_index"], [fn |-> "index.describe_index_stats"]>>]

\* CerebrasRAGAgent.initialize_vector_store: the status returned, the field
\* it leaves and the calls to the index service
initialize_vector_store(vs, has_index, vector_count) ==
    IF vs
    THEN [ok |-> TRUE, message |-> "Already initialized", vector_store |-> TRUE,
          trace |-> <<>>]
    ELSE IF ~has_index
    THEN [ok |-> FALSE, message |-> "not found", vector_store |-> FALSE,
          trace |-> <<[fn |-> "pc.has_index"]>>]
    ELSE IF vector_count = 0
    THEN [ok |-> FALSE, message |-> "is empty", vector_store |-> FALSE,
          trace |-> <<[fn |-> "pc.has_index"], [fn |-> "index.describe_index_stats"]>>]
    ELSE [ok |-> TRUE, message |-> "Connected successfully", vector_store |-> TRUE,
          trace |-> <<[fn |-> "pc.has_index"], [fn |-> "index.describe_index_stats"]>>]

\* a call of initialize_vector_store
InitializeVectorStore(has_index, vector_count) ==
    /\ Idle
    /\ LET r == initialize_vector_store(vector_store, has_index, vector_count)
       IN  /\ call' = [op |-> "initialize_vector_store", has_index |-> has_index,
                       vector_count |-> vector_count, before |-> vector_store]
           /\ result' = [kind |-> "status", ok |-> r.ok, message |-> r.message]
           /\ trace' = r.trace
           /\ vector_store' = r.vector_store
    /\ UNCHANGED <<environ, index, graph, memory, cli_vars, events>>

\* CerebrasRAGAgent.initialize_graph
InitializeGraph ==
    /\ Idle
    /\ call' = [op |-> "initialize_graph"]
    /\ graph' = TRUE
    /\ memory' = IF graph THEN memory ELSE [t \in Threads |-> <<>>]
    /\ UNCHANGED <<environ, index, vector_store, cli_vars, result, events, trace>>

\* CerebrasRAGAgent.ask_question
AskQuestion(question, use_citations, use_reranking, config) ==
    /\ Idle
    /\ Room(memory)
    /\ \E x \in Oracles(Truthy(getenv("COHERE_API_KEY")), vector_store, graph, memory,
                        question, use_citations, use_reranking, config) :
          LET out == ask_question(Truthy(getenv("COHERE_API_KEY")), vector_store, graph,
                                  memory, question, use_citations, use_reranking,
                                  config, x)
          IN  /\ call' = [op |-> "ask_question", question |-> question,
                          use_citations |-> use_citations,
                          use_reranking |-> use_reranking, config |-> config,
                          before |-> memory]
              /\ result' = out.result
              /\ memory' = out.memory
              /\ trace' = out.trace
    /\ UNCHANGED <<environ, index, vector_store, graph, cli_vars, events>>

\* CerebrasRAGAgent.stream_response_with_citations, consumed to its end
StreamResponse(question, use_citations, use_reranking, config) ==
    /\ Idle
    /\ Room(memory)
    /\ \E x \in Oracles(Truthy(getenv("COHERE_API_KEY")), vector_store, graph, memory,
                        question, use_citations, use_reranking, config) :
          LET out == stream_response_with_citations(
                         Truthy(getenv("COHERE_API_KEY")), vector_store, graph, memory,
                         question, use_citations, use_reranking, config, x)
          IN  /\ call' = [op |-> "stream_response_with_citations",
                          question |-> question, use_citations |-> use_citations,
                          use_reranking |-> use_reranking, config |-> config,
                          before |-> memory]
              /\ events' = out.events
              /\ memory' = out.memory
              /\ trace' = out.trace
    /\ UNCHANGED <<environ, index, vector_store, graph, cli_vars, result>>

InitAgent ==
    /\ index = NoIndex
    /\ environ \in {AllSet, [AllSet EXCEPT !["COHERE_API_KEY"] = "None"]}
    /\ Constructed

NextAgent ==
    \/ Return
    \/ \E has_index \in BOOLEAN, vector_count \in 0..1 :
          InitializeVectorStore(has_index, vector_count)
    \/ InitializeGraph
    \/ \E q \in Questions, uc \in BOOLEAN, ur \in BOOLEAN, c \in Configs :
          AskQuestion(q, uc, ur, c)
    \/ \E q \in Questions, uc \in BOOLEAN, ur \in BOOLEAN, c \in Configs :
          StreamResponse(q, uc, ur, c)

SpecAgent == InitAgent /\ [][NextAgent]_vars

----------------------------------------------------------------------------
(* retrieve_with_citations and generate_with_citations as functions of      *)
(* their arguments and of the outcomes of the calls they make               *)

RetrieveCalls ==
    UNION {
      {[op |-> "retrieve_with_citations", k |-> k, use_reranking |-> ur,
        search |-> s, rerank |-> r] :
          ur \in BOOLEAN, s \in SearchOutcomes(k, NumDocs), r \in RerankOutcomes(k, NumDocs)}
      : k \in 0..MaxK}

GenerateCalls ==
    UNION {
      {[op |-> "generate_with_citations", question |-> WHAT_IS,
        documents |-> Ranking(n), use_structured_output |-> so, gen |-> gn] :
          so \in BOOLEAN, gn \in GenOutcomes(n, MaxCites)}
      : n \in 0..AskDocs}

\* the texts _clean is applied to
CleanCalls == {[op |-> "_clean", text |-> t] : t \in SeqsUpTo(Chars, MaxText)}

InitPure ==
    /\ index = NoIndex
    /\ environ \in {AllSet, [AllSet EXCEPT !["COHERE_API_KEY"] = "None"]}
    /\ vector_store \in BOOLEAN
    /\ graph \in BOOLEAN
    /\ memory = [t \in Threads |-> <<>>]
    /\ citations_enabled = TRUE
    /\ reranking_enabled = FALSE
    /\ running = TRUE
    /\ conversation_history = <<>>
    /\ cli_pc = "constructed"
    /\ \/ ~graph /\ call \in RetrieveCalls
       \/ ~graph /\ ~vector_store /\ environ = AllSet /\ call \in CleanCalls
       \/ ~graph /\ call \in GenerateCalls
       \/ \E o \in {"ask_question", "stream_response_with_citations"}, ur \in BOOLEAN :
           \E s \in CitedSearches(vector_store, AskDocs) :
           \E r \in CitedReranks(Truthy(getenv("COHERE_API_KEY")), ur, AskDocs, s) :
             LET docs == retrieve_with_citations(vector_store, Truthy(getenv("COHERE_API_KEY")),
                                                 DefaultK, ur, s, r).docs
             IN  \E gn \in CitedGenerations(docs, MaxCites), w \in CitedWrites(graph, docs) :
                   call = [op |-> o, question |-> WHAT_IS, use_citations |-> TRUE,
                           use_reranking |-> ur, config |-> "None", before |-> memory,
                           x |-> Oracle(TRUE, NotCalled, s, r, gn, w)]
    /\ result = NoResult
    /\ events = <<>>
    /\ trace = <<>>

RetrieveWithCitations ==
    /\ call.op = "retrieve_with_citations"
    /\ result = NoResult
    /\ LET r == retrieve_with_citations(vector_store, Truthy(getenv("COHERE_API_KEY")),
                                        call.k, call.use_reranking, call.search,
                                        call.rerank)
       IN  /\ result' = [kind |-> "documents", docs |-> r.docs]
           /\ trace' = r.trace
    /\ UNCHANGED <<environ, index, agent_vars, cli_vars, call, events>>

GenerateWithCitations ==
    /\ call.op = "generate_with_citations"
    /\ result = NoResult
    /\ LET a == generate_with_citations(call.question, call.documents,
                                        call.use_structured_output, call.gen)
       IN  /\ result' = a.response
           /\ trace' = a.trace
    /\ UNCHANGED <<environ, index, agent_vars, cli_vars, call, events>>

Clean ==
    /\ call.op = "_clean"
    /\ result = NoResult
    /\ result' = [kind |-> "text", text |-> clean(call.text)]
    /\ UNCHANGED <<environ, index, agent_vars, cli_vars, call, events, trace>>

AnswerWithCitations ==
    /\ call.op \in {"ask_question", "stream_response_with_citations"}
    /\ result = NoResult
    /\ events = <<>>
    /\ trace = <<>>
    /\ IF call.op = "ask_question"
       THEN LET out == ask_question(Truthy(getenv("COHERE_API_KEY")), vector_store, graph,
                                    memory, call.question, call.use_citations,
                                    call.use_reranking, call.config, call.x)
            IN  /\ result' = out.result
                /\ memory' = out.memory
                /\ trace' = out.trace
                /\ UNCHANGED events
       ELSE LET out == stream_response_with_citations(
                           Truthy(getenv("COHERE_API_KEY")), vector_store, graph, memory,
                           call.question, call.use_citations, call.use_reranking,
                           call.config, call.x)
            IN  /\ events' = out.events
                /\ memory' = out.memory
                /\ trace' = out.trace
                /\ UNCHANGED result
    /\ UNCHANGED <<environ, index, vector_store, graph, cli_vars, call>>

NextPure ==
    \/ RetrieveWithCitations
    \/ GenerateWithCitations
    \/ Clean
    \/ AnswerWithCitations

SpecPure == InitPure /\ [][NextPure]_vars

----------------------------------------------------------------------------
(* The interactive shell: CerebrasRAGCLI                                    *)

\* the model types a question only while the shell's own record, at three
\* messages an exchange, has room for one more under the bound of the log
HistRoom(history) == 3 * (Len(history) + 1) <= MaxLog

\* a variant that does not test COHERE_API_KEY
check_prerequisites_two_keys(env) ==
    LET missing == (IF Truthy(env["OPENROUTER_API_KEY"]) THEN <<>>
                    ELSE <<"OPENROUTER_API_KEY">>)
                   \o (IF Truthy(env["PINECONE_API_KEY"]) THEN <<>>
                       ELSE <<"PINECONE_API_KEY">>)
    IN  [ok |-> missing = <<>>, missing |-> missing]

\* CerebrasRAGAgent.check_prerequisites: the missing keys, in the order tested
check_prerequisites(env) ==
    LET missing == (IF Truthy(env["OPENROUTER_API_KEY"]) THEN <<>>
                    ELSE <<"OPENROUTER_API_KEY">>)
                   \o (IF Truthy(env["PINECONE_API_KEY"]) THEN <<>>
                       ELSE <<"PINECONE_API_KEY">>)
                   \o (IF Truthy(env["COHERE_API_KEY"]) THEN <<>>
                       ELSE <<"COHERE_API_KEY">>)
    IN  [ok |-> missing = <<>>, missing |-> missing]

\* a variant that compares the input without lower-casing it
handle_command_case_sensitive(ce, re, run, user_input) ==
    LET command == Strip(user_input)
        same == [handled |-> TRUE, citations_enabled |-> ce, reranking_enabled |-> re,
                 running |-> run, shown |-> "none"]
    IN  IF command \in {<<"quit">>, <<"exit">>}
        THEN [same EXCEPT !.running = FALSE, !.shown = "goodbye"]
        ELSE IF command = <<"help">> THEN [same EXCEPT !.shown = "help"]
        ELSE IF command = <<"status">> THEN [same EXCEPT !.shown = "status"]
        ELSE IF command = <<"history">> THEN [same EXCEPT !.shown = "history"]
        ELSE IF command \in {<<"citations", BLANK, "on">>, <<"citations", BLANK, "off">>}
        THEN [same EXCEPT !.citations_enabled = (command[Len(command)] = "on"),
                          !.shown = "citations"]
        ELSE IF command \in {<<"reranking", BLANK, "on">>, <<"reranking", BLANK, "off">>}
        THEN [same EXCEPT !.reranking_enabled = (command[Len(command)] = "on"),
                          !.shown = "reranking"]
        ELSE [same EXCEPT !.handled = FALSE]

\* a variant whose quit and exit leave the running flag as it is
handle_command_quit_ignored(ce, re, run, user_input) ==
    LET command == Strip(Lower(user_input))
        same == [handled |-> TRUE, citations_enabled |-> ce, reranking_enabled |-> re,
                 running |-> run, shown |-> "none"]
    IN  IF command \in {<<"quit">>, <<"exit">>}
        THEN [same EXCEPT !.shown = "goodbye"]
        ELSE IF command = <<"help">> THEN [same EXCEPT !.shown = "help"]
        ELSE IF command = <<"status">> THEN [same EXCEPT !.shown = "status"]
        ELSE IF command = <<"history">> THEN [same EXCEPT !.shown = "history"]
        ELSE IF command \in {<<"citations", BLANK, "on">>, <<"citations", BLANK, "off">>}
        THEN [same EXCEPT !.citations_enabled = (command[Len(command)] = "on"),
                          !.shown = "citations"]
        ELSE IF command \in {<<"reranking", BLANK, "on">>, <<"reranking", BLANK, "off">>}
        THEN [same EXCEPT !.reranking_enabled = (command[Len(command)] = "on"),
                          !.shown = "reranking"]
        ELSE [same EXCEPT !.handled = FALSE]

\* a variant whose 'citations' command sets the reranking switch as well
handle_command_coupled(ce, re, run, user_input) ==
    LET command == Strip(Lower(user_input))
        same == [handled |-> TRUE, citations_enabled |-> ce, reranking_enabled |-> re,
                 running |-> run, shown |-> "none"]
    IN  IF command \in {<<"quit">>, <<"exit">>}
        THEN [same EXCEPT !.running = FALSE, !.shown = "goodbye"]
        ELSE IF command = <<"help">> THEN [same EXCEPT !.shown = "help"]
        ELSE IF command = <<"status">> THEN [same EXCEPT !.shown = "status"]
        ELSE IF command = <<"history">> THEN [same EXCEPT !.shown = "history"]
        ELSE IF command \in {<<"citations", BLANK, "on">>, <<"citations", BLANK, "off">>}
        THEN [same EXCEPT !.citations_enabled = (command[Len(command)] = "on"),
                          !.reranking_enabled = (command[Len(command)] = "on"),
                          !.shown = "citations"]
        ELSE IF command \in {<<"reranking", BLANK, "on">>, <<"reranking", BLANK, "off">>}
        THEN [same EXCEPT !.reranking_enabled = (command[Len(command)] = "on"),
                          !.shown = "reranking"]
        ELSE [same EXCEPT !.handled = FALSE]

\* CerebrasRAGCLI.handle_command: the fields it leaves, whether it handled the
\* input, and what it displayed
handle_command(ce, re, run, user_input) ==
    LET command == Strip(Lower(user_input))
        same == [handled |-> TRUE, citations_enabled |-> ce, reranking_enabled |-> re,
                 running |-> run, shown |-> "none"]
    IN  IF command \in {<<"quit">>, <<"exit">>}
        THEN [same EXCEPT !.running = FALSE, !.shown = "goodbye"]
        ELSE IF command = <<"help">> THEN [same EXCEPT !.shown = "help"]
        ELSE IF command = <<"status">> THEN [same EXCEPT !.shown = "status"]
        ELSE IF command = <<"history">> THEN [same EXCEPT !.shown = "history"]
        ELSE IF command \in {<<"citations", BLANK, "on">>, <<"citations", BLANK, "off">>}
        THEN [same EXCEPT !.citations_enabled = (command[Len(command)] = "on"),
                          !.shown = "citations"]
        ELSE IF command \in {<<"reranking", BLANK, "on">>, <<"reranking", BLANK, "off">>}
        THEN [same EXCEPT !.reranking_enabled = (command[Len(command)] = "on"),
                          !.shown = "reranking"]
        ELSE [same EXCEPT !.handled = FALSE]

RECURSIVE consume_chunks(_, _, _)
\* lines 225-282: the loop over the agent's chunks; an error chunk ends
\* stream_response at once
consume_chunks(evs, current_answer, citations) ==
    IF evs = <<>>
    THEN [error |-> FALSE, current_answer |-> current_answer, citations |-> citations]
    ELSE LET chunk == Head(evs)
         IN  IF chunk.type = "answer"
             THEN consume_chunks(Tail(evs), chunk.content, citations)
             ELSE IF chunk.type = "citation"
             THEN consume_chunks(Tail(evs), current_answer,
                     Append(citations, [source_id |-> chunk.source_id,
                                        quote |-> chunk.quote, title |-> chunk.title,
                                        url |-> chunk.url]))
             ELSE IF chunk.type = "error"
             THEN [error |-> TRUE, current_answer |-> current_answer,
                   citations |-> citations]
             ELSE consume_chunks(Tail(evs), current_answer, citations)

\* a variant that stops the shell when the agent reports an error
cli_stream_response_stopping(history, run, question, evs) ==
    LET c == consume_chunks(evs, <<>>, <<>>)
    IN  [running |-> run /\ ~c.error,
         conversation_history |->
             IF ~c.error /\ c.current_answer # <<>>
             THEN Append(history, [question |-> question, answer |-> c.current_answer,
                                   citations |-> c.citations])
             ELSE history]

\* a variant that records the answer it has displayed even when an error
\* chunk followed it
cli_stream_response_recording_errors(history, run, question, evs) ==
    LET c == consume_chunks(evs, <<>>, <<>>)
    IN  [running |-> run,
         conversation_history |->
             IF c.current_answer # <<>>
             THEN Append(history, [question |-> question, answer |-> c.current_answer,
                                   citations |-> c.citations])
             ELSE history]

\* CerebrasRAGCLI.stream_response on the chunks the agent yields: the fields
\* of the shell it leaves
cli_stream_response(history, run, question, evs) ==
    LET c == consume_chunks(evs, <<>>, <<>>)
    IN  [running |-> run,
         conversation_history |->
             IF ~c.error /\ c.current_answer # <<>>
             THEN Append(history, [question |-> question, answer |-> c.current_answer,
                                   citations |-> c.citations])
             ELSE history]

\* a regular question that starts with a command word
HELP_ME == <<"Help", BLANK, "me">>

\* lines that are typed at the prompt
Lines ==
    {<<>>, <<BLANK>>, <<"quit">>, <<"Quit", BLANK>>, <<"exit">>, <<"help">>,
     <<"status">>, <<"history">>,
     <<"citations", BLANK, "on">>, <<"citations", BLANK, "off">>,
     <<"reranking", BLANK, "on">>, <<"reranking", BLANK, "off">>,
     <<BLANK>> \o HELP_ME \o <<BLANK>>}
    \cup HistoryQuestions

\* the kind of an input line, as lines 353-363 of run decide it
LineKind(line) ==
    IF Strip(line) = <<>> THEN "empty"
    ELSE IF handle_command(TRUE, TRUE, TRUE, Strip(line)).handled THEN "command"
    ELSE "question"

NoOracle == Oracle(TRUE, NotCalled, NotCalled, NotCalled, NotCalled, NotCalled)

\* the outcomes one pass of the loop can reach: those of the question asked,
\* none for a command or an empty line
LineOracles(kind, cohere, vs, g, mem, question, use_citations, use_reranking, config) ==
    IF kind = "question"
    THEN Oracles(cohere, vs, g, mem, question, use_citations, use_reranking, config)
    ELSE {NoOracle}

SESSION == "cli_session"

\* CerebrasRAGCLI.initialize_system and the start of run: the loop is
\* entered only when it returns True
CliInitializeSystem(has_index, vector_count) ==
    /\ cli_pc = "constructed"
    /\ Idle
    /\ LET p == check_prerequisites(environ)
           v == initialize_vector_store(vector_store, has_index, vector_count)
       IN  /\ call' = [op |-> "initialize_system", prereq_ok |-> p.ok,
                       missing |-> p.missing]
           /\ IF ~p.ok
              THEN /\ result' = [kind |-> "status", ok |-> FALSE, message |-> "Missing API keys"]
                   /\ trace' = <<>>
                   /\ cli_pc' = "exited"
                   /\ UNCHANGED <<vector_store, graph>>
              ELSE IF ~v.ok
              THEN /\ result' = [kind |-> "status", ok |-> FALSE, message |-> v.message]
                   /\ trace' = v.trace
                   /\ cli_pc' = "exited"
                   /\ vector_store' = v.vector_store
                   /\ UNCHANGED graph
              ELSE /\ result' = [kind |-> "status", ok |-> TRUE, message |-> v.message]
                   /\ trace' = v.trace
                   /\ cli_pc' = "handled"
                   /\ vector_store' = v.vector_store
                   /\ graph' = TRUE
    /\ UNCHANGED <<environ, index, memory, citations_enabled, reranking_enabled, running,
                   conversation_history, events>>

\* lines 349-363: one pass of the loop of run on the line typed
CliInput(line) ==
    /\ cli_pc = "prompt"
    /\ Idle
    /\ LET user_input == Strip(line)
           kind == LineKind(line)
           h == handle_command(citations_enabled, reranking_enabled, running, user_input)
       IN  /\ kind = "question" => Room(memory) /\ HistRoom(conversation_history)
           /\ \E x \in LineOracles(kind, Truthy(getenv("COHERE_API_KEY")), vector_store,
                                    graph, memory, user_input, citations_enabled,
                                    reranking_enabled, SESSION) :
                 LET out == stream_response_with_citations(
                                Truthy(getenv("COHERE_API_KEY")), vector_store, graph,
                                memory, user_input, citations_enabled,
                                reranking_enabled, SESSION, x)
                     c == cli_stream_response(conversation_history, running,
                                              user_input, out.events)
                 IN  /\ call' = [op |-> "input", line |-> line, kind |-> kind,
                                 forwarded |->
                                    IF kind = "question"
                                    THEN <<[question |-> user_input,
                                            use_citations |-> citations_enabled,
                                            use_reranking |-> reranking_enabled,
                                            config |-> SESSION]>>
                                    ELSE <<>>,
                                 before |-> memory]
                     /\ IF kind = "question"
                        THEN /\ events' = out.events
                             /\ trace' = out.trace
                             /\ memory' = out.memory
                             /\ conversation_history' = c.conversation_history
                             /\ running' = c.running
                             /\ UNCHANGED <<citations_enabled, reranking_enabled>>
                        ELSE /\ events' = <<>>
                             /\ trace' = <<>>
                             /\ citations_enabled' =
                                    IF kind = "command" THEN h.citations_enabled
                                    ELSE citations_enabled
                             /\ reranking_enabled' =
                                    IF kind = "command" THEN h.reranking_enabled
                                    ELSE reranking_enabled
                             /\ running' = IF kind = "command" THEN h.running ELSE running
                             /\ UNCHANGED <<memory, conversation_history>>
    /\ cli_pc' = "handled"
    /\ UNCHANGED <<environ, index, vector_store, graph, result>>

\* line 348: the loop condition, tested after each pass
CliLoop ==
    /\ cli_pc = "handled"
    /\ cli_pc' = IF running THEN "prompt" ELSE "exited"
    /\ call' = NoCall
    /\ result' = NoResult
    /\ events' = <<>>
    /\ trace' = <<>>
    /\ UNCHANGED <<environ, index, agent_vars, citations_enabled, reranking_enabled, running,
                   conversation_history>>

\* lines 365-372: KeyboardInterrupt or EOFError at the prompt ends the loop
CliInterrupt(exception) ==
    /\ cli_pc = "prompt"
    /\ Idle
    /\ cli_pc' = "exited"
    /\ call' = [op |-> "interrupt", exception |-> exception]
    /\ UNCHANGED <<environ, index, agent_vars, citations_enabled, reranking_enabled, running,
                   conversation_history, result, events, trace>>

Init ==
    /\ index = NoIndex
    /\ environ \in [Keys -> EnvValues]
    /\ Constructed

Next ==
    \/ \E has_index \in BOOLEAN, vector_count \in 0..1 :
          CliInitializeSystem(has_index, vector_count)
    \/ \E line \in Lines : CliInput(line)
    \/ CliLoop
    \/ \E e \in {"KeyboardInterrupt", "EOFError"} : CliInterrupt(e)

Spec == Init /\ [][Next]_vars

----------------------------------------------------------------------------
(* The indexing run: src/src/cerebras_rag/utils/populate_vectordb.py        *)
(*                                                                          *)
(* A page is a record naming the crawl that produced it, a chunk is a page  *)
(* with its chunk_index, and a vector is an id with the chunk stored under  *)
(* it.  The crawlers, the embedding service and the index draw their        *)
(* outcomes from sets.                                                      *)

\* primary-crawl pages below which main turns to the fallback crawl
MinDocs == 5
\* chunks embedded and upserted per request
batch_size == 10

\* pages the primary crawl can return
MaxPrimary == 6
\* chunks the splitter can cut one page into
MaxPerDoc == 2
\* chunks in a list given to populate_index directly
MaxChunks == 21

required_vars == <<"COHERE_API_KEY", "PINECONE_API_KEY">>

fallback_urls == <<"introduction", "quickstart", "api-reference", "guides">>

IndexKeys == {"COHERE_API_KEY", "PINECONE_API_KEY", "FIRECRAWL_API_KEY"}

\* f"doc_{n}"
VectorId(n) == <<"doc", n>>

Ids(idx) == {v.id : v \in idx.vectors}

\* index.upsert: a vector replaces the one stored under the same id
upsert(vectors, new) ==
    {v \in vectors : v.id \notin {w.id : w \in new}} \cup new

\* lines 149-214: without a Firecrawl client nothing is crawled; a raised
\* exception and an unsuccessful crawl both give no page. The pages of the
\* site are numbered, and the number of a page stands for its URL: the
\* fallback URLs are the pages 1..Len(fallback_urls).
crawl_with_firecrawl(firecrawl, primary) ==
    IF ~firecrawl
    THEN [docs |-> <<>>,
          trace |-> <<[fn |-> "crawl_with_firecrawl", docs |-> 0]>>]
    ELSE LET docs == IF primary.kind = "ok"
                     THEN [i \in 1..primary.pages |->
                             [crawl |-> "firecrawl", page |-> primary.first + i - 1]]
                     ELSE <<>>
         IN  [docs |-> docs,
              trace |-> <<[fn |-> "crawl_url", outcome |-> primary.kind],
                          [fn |-> "crawl_with_firecrawl", docs |-> Len(docs)]>>]

\* lines 216-276: without the requests/bs4 imports nothing is crawled; a URL
\* whose request fails or whose text is too short is passed over
crawl_fallback(urls, fallback) ==
    LET fetched == SelectSeq([i \in 1..Len(urls) |-> i],
                             LAMBDA i : urls[i] \in fallback.fetched)
        docs == IF fallback.kind = "import_error" THEN <<>>
                ELSE [i \in 1..Len(fetched) |-> [crawl |-> "fallback", page |-> fetched[i]]]
    IN  [docs |-> docs,
         trace |-> <<[fn |-> "crawl_fallback", docs |-> Len(docs)]>>]

\* lines 278-309: every page is cut into its chunks, in page order
chunk_documents(documents, per) ==
    [p \in 1..(Len(documents) * per) |->
        [doc |-> documents[((p - 1) \div per) + 1], chunk_index |-> (p - 1) % per,
         total_chunks |-> per]]

Batches(n) == (n + batch_size - 1) \div batch_size

BatchOutcomes(n) == [1..Batches(n) -> {"ok", "embed_failed", "upsert_failed"}]

\* a loop that ends at the first failed batch
RECURSIVE process_batches_stopping(_, _, _, _)
process_batches_stopping(vectors, documents, i, outcomes) ==
    IF i >= Len(documents) THEN [vectors |-> vectors, trace |-> <<>>]
    ELSE LET batch == SubSeq(documents, i + 1, Min(i + batch_size, Len(documents)))
             outcome == outcomes[(i \div batch_size) + 1]
             new == {[id |-> VectorId(i + j), text |-> batch[j + 1]] :
                        j \in 0..(Len(batch) - 1)}
             embed == [fn |-> "embed_documents", offset |-> i, size |-> Len(batch),
                       ok |-> outcome # "embed_failed"]
             store == [fn |-> "upsert", offset |-> i, size |-> Len(batch),
                       ok |-> outcome = "ok"]
             rest == process_batches_stopping(upsert(vectors, new), documents,
                                              i + batch_size, outcomes)
         IN  IF outcome = "embed_failed" THEN [vectors |-> vectors, trace |-> <<embed>>]
             ELSE IF outcome = "upsert_failed"
                  THEN [vectors |-> vectors, trace |-> <<embed, store>>]
                  ELSE [vectors |-> rest.vectors, trace |-> <<embed, store>> \o rest.trace]

\* a loop that numbers the vectors after those already stored
RECURSIVE process_batches_appending(_, _, _, _)
process_batches_appending(vectors, documents, i, outcomes) ==
    IF i >= Len(documents) THEN [vectors |-> vectors, trace |-> <<>>]
    ELSE LET batch == SubSeq(documents, i + 1, Min(i + batch_size, Len(documents)))
             outcome == outcomes[(i \div batch_size) + 1]
             new == {[id |-> VectorId(Cardinality(vectors) + j), text |-> batch[j + 1]] :
                        j \in 0..(Len(batch) - 1)}
             embed == [fn |-> "embed_documents", offset |-> i, size |-> Len(batch),
                       ok |-> outcome # "embed_failed"]
             store == [fn |-> "upsert", offset |-> i, size |-> Len(batch),
                       ok |-> outcome = "ok"]
             after == IF outcome = "ok" THEN upsert(vectors, new) ELSE vectors
             rest == process_batches_appending(after, documents, i + batch_size, outcomes)
         IN  [vectors |-> rest.vectors,
              trace |-> <<embed>> \o (IF outcome = "embed_failed" THEN <<>> ELSE <<store>>)
                        \o rest.trace]

\* lines 363-402: for i in range(0, len(documents), batch_size); a batch whose
\* embedding or upsert raises is reported and the loop continues
RECURSIVE process_batches(_, _, _, _)
process_batches(vectors, documents, i, outcomes) ==
    IF i >= Len(documents) THEN [vectors |-> vectors, trace |-> <<>>]
    ELSE LET batch == SubSeq(documents, i + 1, Min(i + batch_size, Len(documents)))
             outcome == outcomes[(i \div batch_size) + 1]
             new == {[id |-> VectorId(i + j), text |-> batch[j + 1]] :
                        j \in 0..(Len(batch) - 1)}
             embed == [fn |-> "embed_documents", offset |-> i, size |-> Len(batch),
                       ok |-> outcome # "embed_failed"]
             store == [fn |-> "upsert", offset |-> i, size |-> Len(batch),
                       ok |-> outcome = "ok"]
             after == IF outcome = "ok" THEN upsert(vectors, new) ELSE vectors
             rest == process_batches(after, documents, i + batch_size, outcomes)
         IN  [vectors |-> rest.vectors,
              trace |-> <<embed>> \o (IF outcome = "embed_failed" THEN <<>> ELSE <<store>>)
                        \o rest.trace]

\* lines 311-342: the index is looked up and created when it is absent
setup_pinecone_index(idx, setup) ==
    IF setup = "error"
    THEN [raised |-> TRUE, index |-> idx,
          trace |-> <<[fn |-> "list_indexes", ok |-> FALSE]>>]
    ELSE [raised |-> FALSE, index |-> [idx EXCEPT !.exists = TRUE],
          trace |-> <<[fn |-> "list_indexes", ok |-> TRUE]>>
                    \o (IF idx.exists THEN <<>> ELSE <<[fn |-> "create_index", ok |-> TRUE]>>)]

\* what populate_index prints once its loop has ended (line 407)
Populated_with(vector_count) ==
    [message |-> "Successfully populated index with", vector_count |-> vector_count]

\* lines 344-407: after the loop the index is asked for its total vector
\* count, which is printed
populate_index(idx, documents, setup, outcomes) ==
    IF documents = <<>>
    THEN [raised |-> FALSE, index |-> idx, trace |-> <<>>,
          printed |-> <<[message |-> "No documents to populate"]>>]
    ELSE LET s == setup_pinecone_index(idx, setup)
             b == process_batches(s.index.vectors, documents, 0, outcomes)
             vector_count == Cardinality(b.vectors)
             stats == [fn |-> "describe_index_stats", total_vector_count |-> vector_count]
         IN  IF s.raised
             THEN [raised |-> TRUE, index |-> s.index, trace |-> s.trace, printed |-> <<>>]
             ELSE [raised |-> FALSE,
                   index |-> [s.index EXCEPT !.vectors = b.vectors],
                   trace |-> s.trace \o b.trace \o <<stats>>,
                   printed |-> <<Populated_with(vector_count)>>]

\* main with the fallback crawl run only when the primary crawl gave nothing
main_fallback_when_empty(env, idx, primary, fallback, per, setup, outcomes) ==
    IF \E i \in 1..Len(required_vars) : ~Truthy(env[required_vars[i]])
    THEN [status |-> "missing_vars", index |-> idx, chunks |-> 0, chunked |-> <<>>,
          trace |-> <<>>]
    ELSE LET first == crawl_with_firecrawl(Truthy(env["FIRECRAWL_API_KEY"]), primary)
             second == IF first.docs = <<>>
                       THEN crawl_fallback(fallback_urls, fallback)
                       ELSE [docs |-> <<>>, trace |-> <<>>]
             all_documents == first.docs \o second.docs
             chunked_documents == chunk_documents(all_documents, per)
             p == populate_index(idx, chunked_documents, setup, outcomes)
         IN  IF all_documents = <<>>
             THEN [status |-> "no_documents", index |-> idx, chunks |-> 0, chunked |-> <<>>,
                   trace |-> first.trace \o second.trace]
             ELSE [status |-> IF p.raised THEN "raised" ELSE "completed",
                   index |-> p.index, chunks |-> Len(chunked_documents),
                   chunked |-> chunked_documents,
                   trace |-> first.trace \o second.trace \o p.trace]

\* main without the return on an empty crawl
main_without_abort(env, idx, primary, fallback, per, setup, outcomes) ==
    IF \E i \in 1..Len(required_vars) : ~Truthy(env[required_vars[i]])
    THEN [status |-> "missing_vars", index |-> idx, chunks |-> 0, chunked |-> <<>>,
          trace |-> <<>>]
    ELSE LET first == crawl_with_firecrawl(Truthy(env["FIRECRAWL_API_KEY"]), primary)
             second == IF Len(first.docs) < MinDocs
                       THEN crawl_fallback(fallback_urls, fallback)
                       ELSE [docs |-> <<>>, trace |-> <<>>]
             all_documents == first.docs \o second.docs
             chunked_documents == chunk_documents(all_documents, per)
             s == setup_pinecone_index(idx, setup)
         IN  IF all_documents = <<>>
             THEN [status |-> IF s.raised THEN "raised" ELSE "completed",
                   index |-> s.index, chunks |-> 0, chunked |-> <<>>,
                   trace |-> first.trace \o second.trace \o s.trace]
             ELSE LET p == populate_index(idx, chunked_documents, setup, outcomes)
                  IN  [status |-> IF p.raised THEN "raised" ELSE "completed",
                       index |-> p.index, chunks |-> Len(chunked_documents),
                       chunked |-> chunked_documents,
                       trace |-> first.trace \o second.trace \o p.trace]

\* lines 410-470: the run stops before crawling when a required credential is
\* missing, and before chunking when both crawls gave no page
main(env, idx, primary, fallback, per, setup, outcomes) ==
    IF \E i \in 1..Len(required_vars) : ~Truthy(env[required_vars[i]])
    THEN [status |-> "missing_vars", index |-> idx, chunks |-> 0, chunked |-> <<>>,
          trace |-> <<>>]
    ELSE LET first == crawl_with_firecrawl(Truthy(env["FIRECRAWL_API_KEY"]), primary)
             second == IF Len(first.docs) < MinDocs
                       THEN crawl_fallback(fallback_urls, fallback)
                       ELSE [docs |-> <<>>, trace |-> <<>>]
             all_documents == first.docs \o second.docs
             chunked_documents == chunk_documents(all_documents, per)
             p == populate_index(idx, chunked_documents, setup, outcomes)
         IN  IF all_documents = <<>>
             THEN [status |-> "no_documents", index |-> idx, chunks |-> 0, chunked |-> <<>>,
                   trace |-> first.trace \o second.trace]
             ELSE [status |-> IF p.raised THEN "raised" ELSE "completed",
                   index |-> p.index, chunks |-> Len(chunked_documents),
                   chunked |-> chunked_documents,
                   trace |-> first.trace \o second.trace \o p.trace]

\* outcomes of the crawlers; a crawl that is not run has the one outcome
\* Skipped. The primary crawl returns consecutive pages of the site, from its
\* first page (among them the fallback URLs) or from the page after the
\* fallback URLs.
Skipped == [kind |-> "skipped"]

PrimaryOutcomes ==
    {[kind |-> "raised"], [kind |-> "unsuccessful"]}
    \cup {o \in {[kind |-> "ok", pages |-> n, first |-> f] :
                     n \in 0..MaxPrimary, f \in {1, Len(fallback_urls) + 1}} :
             o.pages > 0 \/ o.first = 1}

FallbackOutcomes ==
    {[kind |-> "import_error"]}
    \cup {[kind |-> "ok", fetched |-> f] :
             f \in SUBSET {fallback_urls[i] : i \in 1..Len(fallback_urls)}}

\* an index left by an earlier run
StaleIndex == [exists |-> TRUE,
               vectors |-> {[id |-> VectorId(0),
                             text |-> [doc |-> [crawl |-> "stale", page |-> 1],
                                       chunk_index |-> 0, total_chunks |-> 1]]}]

\* python populate_vectordb.py, from the command line
Main(primary, fallback, per, setup, outcomes) ==
    /\ call = NoCall
    /\ LET m == main(environ, index, primary, fallback, per, setup, outcomes)
       IN  /\ call' = [op |-> "main", primary |-> primary, fallback |-> fallback,
                       per |-> per, setup |-> setup, outcomes |-> outcomes,
                       before |-> index]
           /\ result' = [kind |-> "run", status |-> m.status, chunks |-> m.chunks,
                          chunked |-> m.chunked]
           /\ index' = m.index
           /\ trace' = m.trace
    /\ UNCHANGED <<environ, agent_vars, cli_vars, events>>

InitMain ==
    /\ Constructed
    /\ index \in {NoIndex, StaleIndex}
    /\ environ \in [IndexKeys -> EnvValues]

\* the outcomes are drawn for the calls the run makes: no crawl outcome for a
\* crawl that is not run, one batch outcome for each batch of the chunk list
NextMain ==
    /\ Idle
    /\ \E primary \in PrimaryOutcomes \cup {Skipped},
          fallback \in FallbackOutcomes \cup {Skipped},
          per \in 1..MaxPerDoc, setup \in {"ok", "error"} :
           LET started == \A i \in 1..Len(required_vars) : Truthy(environ[required_vars[i]])
               crawled == started /\ Truthy(environ["FIRECRAWL_API_KEY"])
               dry == main(environ, index, primary, [kind |-> "import_error"], 1,
                           "error", <<>>)
               second == started /\ Calls(dry.trace, "crawl_fallback") # <<>>
               n == main(environ, index, primary, fallback, per, "error", <<>>).chunks
           IN  /\ (primary = Skipped) <=> ~crawled
               /\ (fallback = Skipped) <=> ~second
               /\ n = 0 => per = 1 /\ setup = "ok"
               /\ \E outcomes \in BatchOutcomes(IF setup = "ok" THEN n ELSE 0) :
                     Main(primary, fallback, per, setup, outcomes)

SpecMain == InitMain /\ [][NextMain]_vars

\* a chunk list of n chunks: the chunks of n pages of one chunk each
Chunks(n) == [p \in 1..n |-> [doc |-> [crawl |-> "firecrawl", page |-> p],
                              chunk_index |-> 0, total_chunks |-> 1]]

\* crawler.populate_index(documents)
PopulateIndex(documents, setup, outcomes) ==
    /\ LET p == populate_index(index, documents, setup, outcomes)
       IN  /\ call' = [op |-> "populate_index", documents |-> documents,
                       setup |-> setup, outcomes |-> outcomes, before |-> index]
           /\ result' = [kind |-> "populated", raised |-> p.raised,
                          printed |-> p.printed]
           /\ index' = p.index
           /\ trace' = p.trace
    /\ UNCHANGED <<environ, agent_vars, cli_vars, events>>

InitIndex ==
    /\ Constructed
    /\ index = NoIndex
    /\ environ = [k \in IndexKeys |-> "secret"]

\* lengths of the chunk lists: the empty list, whole batches, whole batches and
\* one chunk more, and the longest list
ChunkCounts == {n \in 0..MaxChunks : n % batch_size \in {0, 1} \/ n = MaxChunks}

NextIndex ==
    \E n \in ChunkCounts, setup \in {"ok", "error"} :
        /\ n = 0 => setup = "ok"
        /\ \E outcomes \in BatchOutcomes(IF setup = "ok" THEN n ELSE 0) :
              PopulateIndex(Chunks(n), setup, outcomes)

SpecIndex == InitIndex /\ [][NextIndex]_vars

----------------------------------------------------------------------------
(* Properties                                                               *)

\* a whole answer has been computed by one of the agent's two entry points
Asked == call.op \in {"ask_question", "stream_response_with_citations"}

\* the turns the operation executed last has added to the log of thread t
Added(t) == SubSeq(memory[t], Len(call.before[t]) + 1, Len(memory[t]))

\* the citation chunks among the chunks yielded
CitationEvents == SelectSeq(events, LAMBDA e : e.type = "citation")

\* C1: for a question answered with citations over a non-empty retrieved
\* sequence, every citation of the Answer returned by ask_question and every
\* citation chunk of stream_response_with_citations has a source_id with
\* 0 <= source_id < len(chunks), whatever citations the model produced
C1_SourceIdsInRange ==
    Asked =>
      \A i \in 1..Len(trace) :
        (trace[i].fn = "retrieve_with_citations" /\ trace[i].docs # <<>>) =>
          LET n == Len(trace[i].docs)
          IN  /\ call.op = "ask_question" =>
                   \A j \in 1..Len(result.citations) :
                      result.citations[j].source_id \in 0..(n - 1)
              /\ \A j \in 1..Len(CitationEvents) :
                   CitationEvents[j].source_id \in 0..(n - 1)

\* C2: when retrieval yields the empty sequence, ask_question returns the
\* Answer with the "no relevant documents" text and no citations, and answer
\* generation is not invoked
C2_EmptyRetrieval ==
    (call.op = "ask_question" /\ Calls(trace, "retrieve_with_citations") # <<>>
       /\ Calls(trace, "retrieve_with_citations")[1].docs = <<>>) =>
      /\ result = QuotedAnswer(NO_DOCUMENTS, <<>>)
      /\ Calls(trace, "chain.invoke") = <<>>

\* ask_question has found the index reachable and empty of matches
C2_Witness ==
    /\ call.op = "ask_question"
    /\ vector_store
    /\ Calls(trace, "similarity_search") # <<>>
    /\ Calls(trace, "similarity_search")[1].ok
    /\ Calls(trace, "retrieve_with_citations")[1].docs = <<>>
    /\ result = QuotedAnswer(NO_DOCUMENTS, <<>>)

\* C3: a history question on a thread whose memory is empty yields the
\* Answer stating that no conversation history exists, with no citations, and
\* neither the language model nor the retriever is called
C3_NoHistory ==
    (Asked /\ is_conversation_history_question(call.question)
       /\ call.before[thread_id(call.config)] = <<>>) =>
      /\ call.op = "ask_question" => result = QuotedAnswer(NO_HISTORY, <<>>)
      /\ call.op = "stream_response_with_citations" =>
            events = <<Status("Searching conversation history..."),
                       AnswerEvent(NO_HISTORY)>>
      /\ \A i \in 1..Len(trace) :
            trace[i].fn \notin {"llm.invoke", "similarity_search", "rerank",
                                "retrieve_with_citations", "chain.invoke",
                                "graph.invoke"}
      /\ memory = call.before

\* a history question asked while the graph exists, another thread has turns
\* and this thread has none
C3_Witness ==
    /\ Asked
    /\ graph
    /\ is_conversation_history_question(call.question)
    /\ call.before[thread_id(call.config)] = <<>>
    /\ \E t \in Threads : call.before[t] # <<>>
    /\ Calls(trace, "graph.get_state") # <<>>

\* C4 as stated: with use_reranking=False at most k documents are returned,
\* with use_reranking=True at most 4, for every k and every outcome
C4_AtMostFourWhenReranking ==
    (call.op = "retrieve_with_citations" /\ result.kind = "documents") =>
      IF call.use_reranking
      THEN Len(result.docs) <= TopN
      ELSE Len(result.docs) <= call.k

\* C4, amended: with use_reranking=False at most k documents are returned;
\* with use_reranking=True at most 4 when COHERE_API_KEY is set and the
\* reranker answers, and at most k otherwise
C4_AtMostFourWhenReranked ==
    (call.op = "retrieve_with_citations" /\ result.kind = "documents") =>
      LET reranked == /\ Calls(trace, "rerank") # <<>>
                      /\ Calls(trace, "rerank")[1].ok
      IN  /\ ~call.use_reranking => ~reranked
          /\ Len(result.docs) <= IF reranked THEN TopN ELSE call.k

\* the reranker has kept 4 of more than 4 candidates
C4_Witness ==
    /\ call.op = "retrieve_with_citations"
    /\ result.kind = "documents"
    /\ call.use_reranking
    /\ call.k > TopN
    /\ Calls(trace, "similarity_search") # <<>>
    /\ Len(Calls(trace, "similarity_search")[1].docs) > TopN
    /\ Calls(trace, "rerank") # <<>>
    /\ Calls(trace, "rerank")[1].ok
    /\ Len(result.docs) = TopN

\* C5 as stated: when the search succeeds and the reranking fails the
\* un-reranked result is returned, and the empty sequence is returned only
\* when the similarity search itself fails
C5_EmptyOnlyOnFailedSearch ==
    (call.op = "retrieve_with_citations" /\ result.kind = "documents") =>
      LET searched == Calls(trace, "similarity_search")
          reranked == Calls(trace, "rerank")
      IN  /\ (searched # <<>> /\ searched[1].ok /\ reranked # <<>> /\ ~reranked[1].ok)
                => result.docs = searched[1].docs
          /\ result.docs = <<>> => (searched = <<>> \/ ~searched[1].ok)

\* C5, amended: when the search succeeds and the reranking fails the
\* un-reranked result is returned; a failed search returns the empty
\* sequence; the empty sequence is returned otherwise only when the call that
\* supplied the result (the search, or the reranker) returned no document
C5_RerankFailureDegrades ==
    (call.op = "retrieve_with_citations" /\ result.kind = "documents") =>
      LET searched == Calls(trace, "similarity_search")
          reranked == Calls(trace, "rerank")
          failed == searched = <<>> \/ ~searched[1].ok
      IN  /\ (~failed /\ reranked # <<>> /\ ~reranked[1].ok)
                => result.docs = searched[1].docs
          /\ failed => result.docs = <<>>
          /\ (result.docs = <<>> /\ ~failed) =>
                IF reranked # <<>> /\ reranked[1].ok
                THEN reranked[1].docs = <<>>
                ELSE searched[1].docs = <<>>

\* the search has returned documents and the reranker has then failed
C5_Witness ==
    /\ call.op = "retrieve_with_citations"
    /\ result.kind = "documents"
    /\ Calls(trace, "similarity_search") # <<>>
    /\ Calls(trace, "similarity_search")[1].ok
    /\ Len(Calls(trace, "similarity_search")[1].docs) > 1
    /\ Calls(trace, "rerank") # <<>>
    /\ ~Calls(trace, "rerank")[1].ok
    /\ result.docs = Calls(trace, "similarity_search")[1].docs

\* C6 as stated: when the model call fails or its output cannot be parsed,
\* generate_with_citations returns an Answer with a failure message and an
\* empty citation list
C6_FailureIsAnswer ==
    (call.op = "generate_with_citations" /\ result # NoResult /\ ~call.gen.ok) =>
      result = QuotedAnswer(GenerationError(ERR), <<>>)

\* C6, amended: when the model call fails or its output cannot be parsed, no
\* exception reaches the caller; with use_structured_output=True the result
\* is an Answer with the failure message and an empty citation list, with
\* use_structured_output=False it is a mapping that holds the failure
\* message under "answer" and no citation list
C6_FailureIsAnswerWhenStructured ==
    (call.op = "generate_with_citations" /\ result # NoResult /\ ~call.gen.ok) =>
      /\ result.kind # "exception"
      /\ result = IF call.use_structured_output
                  THEN QuotedAnswer(GenerationError(ERR), <<>>)
                  ELSE [kind |-> "dict", answer |-> GenerationError(ERR)]

\* the structured chain has failed over a non-empty context
C6_Witness ==
    /\ call.op = "generate_with_citations"
    /\ call.use_structured_output
    /\ call.documents # <<>>
    /\ ~call.gen.ok
    /\ result = QuotedAnswer(GenerationError(ERR), <<>>)

\* C7: no failure while a question is processed stops the shell: after it
\* the shell is running and reads the next input; the loop ends only on
\* quit or exit, on an interrupt or at the end of input
C7_ShellSurvivesFailures ==
    [][/\ (cli_pc = "prompt" /\ call'.op = "input" /\ call'.kind = "question")
            => (running' /\ cli_pc' = "handled")
       /\ (cli_pc = "handled" /\ call.op = "input" /\ call.kind = "question")
            => (running' /\ cli_pc' = "prompt")
       /\ (cli_pc \in {"prompt", "handled"} /\ cli_pc' = "exited") =>
            \/ call'.op = "interrupt"
            \/ /\ call.op = "input"
               /\ call.kind = "command"
               /\ Strip(Lower(call.line)) \in {<<"quit">>, <<"exit">>}]_vars

\* a question has ended in an error chunk and the shell is still running
C7_Witness ==
    /\ call.op = "input"
    /\ call.kind = "question"
    /\ \E i \in 1..Len(events) : events[i].type = "error"
    /\ \E i \in 1..Len(trace) : trace[i].fn = "graph.invoke"
    /\ running
    /\ cli_pc = "handled"

\* C8: the log of every thread is append-only: what it held at an earlier
\* time is a prefix of what it holds at any later time
C8_AppendOnly ==
    [][\A t \in Threads : IsPrefix(memory[t], memory'[t])]_vars

\* an exchange has been written to a thread that already held turns
C8_Witness ==
    /\ Asked
    /\ \E t \in Threads :
          /\ call.before[t] # <<>>
          /\ Len(memory[t]) > Len(call.before[t])
          /\ IsPrefix(call.before[t], memory[t])

\* C9: an exchange is written as one unit of exactly one human turn (the
\* question) followed by one assistant turn: an operation adds to a thread
\* either nothing or exactly these two turns
C9_ExchangeIsTwoTurns ==
    Asked =>
      \A t \in Threads :
        \/ Added(t) = <<>>
        \/ /\ Len(Added(t)) = 2
           /\ Added(t)[1] = HumanMessage(call.question)
           /\ Added(t)[2].role = "ai"

\* C10: a history question bypasses retrieval and citation generation
\* whatever the flags are: with non-empty memory the language model is called
\* once, with a prompt holding every stored turn of the thread in order as
\* "role: content" lines, and the Answer has an empty citation list
C10_HistoryPromptOnce ==
    (Asked /\ is_conversation_history_question(call.question)
       /\ call.before[thread_id(call.config)] # <<>>
       /\ Calls(trace, "graph.get_state") # <<>>
       /\ Calls(trace, "graph.get_state")[1].ok) =>
      /\ \A i \in 1..Len(trace) :
            trace[i].fn \notin {"similarity_search", "rerank",
                                "retrieve_with_citations", "chain.invoke"}
      /\ Len(Calls(trace, "llm.invoke")) = 1
      /\ Calls(trace, "llm.invoke")[1].input =
            <<HumanMessage(HistoryPrompt(call.question,
                                         call.before[thread_id(call.config)]))>>
      /\ call.op = "ask_question" => result.citations = <<>>
      /\ CitationEvents = <<>>

\* C11: for every history question the exchange (the question and the
\* answer given) is appended to the log of the thread it was asked on, and
\* to no other thread
C11_HistoryExchangeAppended ==
    (Asked /\ graph /\ is_conversation_history_question(call.question)) =>
      LET t == thread_id(call.config)
      IN  /\ Len(Added(t)) >= 2
          /\ Added(t)[1] = HumanMessage(call.question)
          /\ Added(t)[2].role = "ai"
          /\ call.op = "ask_question" => Added(t)[2].content = result.answer
          /\ \A u \in Threads \ {t} : Added(u) = <<>>

\* C12: _clean is idempotent: applying the seven rules in their order to
\* its own result changes nothing
C12_CleanIdempotent ==
    (call.op = "_clean" /\ result # NoResult) => clean(result.text) = result.text

\* C13 as stated: check_prerequisites fails exactly when one of the three
\* keys is unset, and its list names the unset keys and no other; on failure
\* initialize_system returns False before any call to a service, with the
\* vector store and the graph not initialised, and the loop never starts
C13_UnsetKeysBlockStartup ==
    /\ call.op = "initialize_system" =>
          LET unset == {k \in Keys : environ[k] = "None"}
          IN  /\ call.prereq_ok <=> unset = {}
              /\ {call.missing[i] : i \in 1..Len(call.missing)} = unset
              /\ ~call.prereq_ok =>
                    /\ ~result.ok
                    /\ ~vector_store
                    /\ ~graph
                    /\ trace = <<>>
                    /\ cli_pc = "exited"
    /\ cli_pc = "prompt" => \A k \in Keys : environ[k] # "None"

\* C13, amended: check_prerequisites fails exactly when one of the three keys
\* is unset or set to the empty string, and its list names these keys and
\* no other; on failure initialize_system returns False before any call to a
\* service, with the vector store and the graph not initialised, and the loop
\* never starts
C13_MissingKeysBlockStartup ==
    /\ call.op = "initialize_system" =>
          LET missing == {k \in Keys : environ[k] \in {"None", ""}}
          IN  /\ call.prereq_ok <=> missing = {}
              /\ {call.missing[i] : i \in 1..Len(call.missing)} = missing
              /\ Len(call.missing) = Cardinality(missing)
              /\ ~call.prereq_ok =>
                    /\ ~result.ok
                    /\ ~vector_store
                    /\ ~graph
                    /\ trace = <<>>
                    /\ cli_pc = "exited"
    /\ cli_pc = "prompt" => \A k \in Keys : environ[k] \notin {"None", ""}

\* start-up has been refused with two keys missing, one of them unset
C13_Witness ==
    /\ call.op = "initialize_system"
    /\ ~call.prereq_ok
    /\ Len(call.missing) = 2
    /\ environ["COHERE_API_KEY"] = "None"
    /\ cli_pc = "exited"

\* C14: when the index does not exist or holds no vector,
\* initialize_vector_store returns (False, message) and leaves the vector
\* store unset, so that no query is sent to such an index; once it has
\* succeeded a further call returns success without connecting again
C14_VectorStoreRefused ==
    /\ call.op = "initialize_vector_store" =>
          /\ result.kind = "status"
          /\ (~call.before /\ (~call.has_index \/ call.vector_count = 0)) =>
                /\ ~result.ok
                /\ result.message \in {"not found", "is empty"}
                /\ ~vector_store
          /\ call.before => (result.ok /\ vector_store /\ trace = <<>>)
    /\ Asked => (Calls(trace, "similarity_search") # <<>> => vector_store)

\* the index exists and holds no vector
C14_Witness ==
    /\ call.op = "initialize_vector_store"
    /\ ~call.before
    /\ call.has_index
    /\ call.vector_count = 0
    /\ ~result.ok
    /\ ~vector_store

\* the command words of the shell
CommandWords ==
    {<<"help">>, <<"status">>, <<"history">>, <<"quit">>, <<"exit">>,
     <<"citations", BLANK, "on">>, <<"citations", BLANK, "off">>,
     <<"reranking", BLANK, "on">>, <<"reranking", BLANK, "off">>}

\* C15: a line is handled as a command exactly when, trimmed and
\* lower-cased, it is one of the command words; every other non-empty line is
\* forwarded to the agent once, as a question, with the flags as they stand
\* and the thread of the session; an empty line is forwarded nowhere
C15_CommandOrQuestion ==
    call.op = "input" =>
      LET word == Strip(Lower(call.line)) \in CommandWords
          empty == Strip(call.line) = <<>>
      IN  /\ call.kind = "command" <=> word
          /\ (word \/ empty) =>
                (call.forwarded = <<>> /\ events = <<>> /\ trace = <<>>
                   /\ memory = call.before)
          /\ (~word /\ ~empty) =>
                /\ call.forwarded =
                      <<[question |-> Strip(call.line),
                         use_citations |-> citations_enabled,
                         use_reranking |-> reranking_enabled,
                         config |-> "cli_session"]>>
                /\ events # <<>>
                /\ Len(Calls(trace, "retrieve_with_citations")) <= 1
                /\ (~citations_enabled => Calls(trace, "retrieve_with_citations") = <<>>)
                /\ (~reranking_enabled => Calls(trace, "rerank") = <<>>)
                /\ memory["1"] = <<>>

\* a line that starts with a command word has been forwarded as a question,
\* with citations switched off before
C15_Witness ==
    /\ call.op = "input"
    /\ call.line = <<BLANK>> \o HELP_ME \o <<BLANK>>
    /\ ~citations_enabled
    /\ call.forwarded # <<>>
    /\ call.forwarded[1].question = HELP_ME
    /\ call.forwarded[1].use_citations = FALSE
    /\ Calls(trace, "graph.invoke") # <<>>

\* C16: the shell ends on quit, exit, an interrupt or the end of input: after
\* a quit or exit command, or an interrupt at the prompt, the loop is left,
\* and once it is left no line is read or processed
C16_ShellTerminates ==
    [][/\ (cli_pc = "handled" /\ call.op = "input"
             /\ Strip(Lower(call.line)) \in {<<"quit">>, <<"exit">>})
            => cli_pc' = "exited"
       /\ (cli_pc = "prompt" /\ call'.op = "interrupt") => cli_pc' = "exited"
       /\ call'.op = "input" => (running /\ cli_pc = "prompt")
       /\ cli_pc = "exited" => UNCHANGED vars]_vars

\* the shell has been left by quit or exit after it had answered a question
C16_Witness ==
    /\ cli_pc = "exited"
    /\ ~running
    /\ conversation_history # <<>>

\* the indexing run got past its credential check and crawled
Crawled == call.op = "main" /\ result.status # "missing_vars"

\* pages the primary crawl of the run executed last has produced
PrimaryPages ==
    IF Truthy(environ["FIRECRAWL_API_KEY"]) /\ call.primary.kind = "ok"
    THEN call.primary.pages ELSE 0

\* C17: an indexing run that crawls uses the fallback crawl if and only if
\* its primary crawl produced fewer than 5 documents; a primary crawl that was
\* unavailable, raised or was unsuccessful produced none, so the fallback
\* crawl is used
C17_FallbackIffFewPrimary ==
    Crawled =>
        /\ (Calls(trace, "crawl_fallback") # <<>>) <=> (PrimaryPages < 5)
        /\ Len(Calls(trace, "crawl_fallback")) <= 1
        /\ Calls(trace, "crawl_with_firecrawl")[1].docs = PrimaryPages
        /\ (~Truthy(environ["FIRECRAWL_API_KEY"])
              \/ call.primary.kind \in {"raised", "unsuccessful"})
             => Calls(trace, "crawl_fallback") # <<>>

\* the primary crawl produced four pages and the fallback crawl was used
C17_Witness ==
    /\ Crawled
    /\ call.primary.kind = "ok"
    /\ call.primary.pages = 4
    /\ Calls(trace, "crawl_fallback") # <<>>
    /\ result.status = "completed"

\* C18: when the primary and the fallback crawl both yield no document, the
\* indexing run stops without touching the index: the index is not looked
\* up or created, nothing is embedded and no vector is upserted
C18_EmptyCrawlLeavesIndex ==
    (Crawled /\ PrimaryPages = 0 /\ Calls(trace, "crawl_fallback") # <<>>
        /\ Calls(trace, "crawl_fallback")[1].docs = 0)
    => /\ result.status = "no_documents"
       /\ index = call.before
       /\ \A fn \in {"list_indexes", "create_index", "embed_documents", "upsert"} :
             Calls(trace, fn) = <<>>

\* both crawls ran and found nothing, and the index still does not exist
C18_Witness ==
    /\ Crawled
    /\ call.primary.kind = "ok"
    /\ call.primary.pages = 0
    /\ call.fallback.kind = "ok"
    /\ call.fallback.fetched = {}
    /\ result.status = "no_documents"
    /\ index = NoIndex

\* populate_index has run over a non-empty chunk list and reached its loop
Populated ==
    call.op = "populate_index" /\ call.documents # <<>> /\ ~result.raised

\* the offsets of the chunks of batch b in a list of n chunks
BatchOffsets(n, b) == {p \in 0..(n - 1) : p \div 10 = b - 1}

\* the vectors of idx stored under the ids of the given offsets
StoredAt(idx, offsets) == {v \in idx.vectors : v.id \in {VectorId(p) : p \in offsets}}

\* C19: a failed batch is skipped and indexing continues: every batch of at
\* most 10 chunks is attempted in order; the vectors of a batch whose
\* embedding or upsert fails are left as they were; every chunk at offset p
\* of a batch that succeeds is stored under id doc_p, whichever batches failed
C19_FailedBatchSkipped ==
    Populated =>
        LET n == Len(call.documents)
            nb == (n + 9) \div 10
            attempts == Calls(trace, "embed_documents")
        IN  /\ Len(attempts) = nb
            /\ \A b \in 1..nb :
                  /\ attempts[b].offset = 10 * (b - 1)
                  /\ attempts[b].size = Cardinality(BatchOffsets(n, b))
                  /\ attempts[b].size <= 10
                  /\ call.outcomes[b] = "ok" =>
                        StoredAt(index, BatchOffsets(n, b))
                          = {[id |-> VectorId(p), text |-> call.documents[p + 1]] :
                                p \in BatchOffsets(n, b)}
                  /\ call.outcomes[b] # "ok" =>
                        StoredAt(index, BatchOffsets(n, b))
                          = StoredAt(call.before, BatchOffsets(n, b))
            /\ index.vectors \ StoredAt(index, 0..(n - 1))
                 = call.before.vectors \ StoredAt(call.before, 0..(n - 1))

\* the first batch failed at the embedding, the second at the upsert, and the
\* one chunk of the third batch is stored under doc_20
C19_Witness ==
    /\ Populated
    /\ Len(call.documents) = 21
    /\ call.outcomes = <<"embed_failed", "upsert_failed", "ok">>
    /\ call.before.vectors = {}
    /\ Ids(index) = {VectorId(20)}

\* the batches of the run recorded in c (with its result r) that were stored
StoredBatches(c, r) ==
    IF c.documents = <<>> \/ r.raised THEN {}
    ELSE {b \in DOMAIN c.outcomes : c.outcomes[b] = "ok"}

\* populate_index has just run a second time over the chunk list of the run
\* before it
Rerun ==
    /\ call.op = "populate_index"
    /\ call'.op = "populate_index"
    /\ call'.documents = call.documents

\* C20 as stated: populate_index run twice over the same ordered chunk list
\* gives every chunk the same id in both runs, so the ids in the store after
\* the second run are the ids after the first run
C20_SameIdsAfterRerun ==
    [][Rerun => Ids(index') = Ids(index)]_vars

\* C20: populate_index run twice over the same ordered chunk list stores the
\* chunk at an offset under the same id doc_<offset> in both runs, one vector
\* per id; the second run adds the ids of the batches it stores and no other,
\* so the ids after the second run are the ids after the first run when every
\* batch the second run stores was stored by the first run too
C20_RerunOverwrites ==
    [][Rerun =>
          LET n == Len(call.documents)
              first == StoredBatches(call, result)
              second == StoredBatches(call', result')
              Stored(batches) ==
                  {[id |-> VectorId(p), text |-> call.documents[p + 1]] :
                     p \in {q \in 0..(n - 1) : (q \div 10) + 1 \in batches}}
          IN  /\ Stored(first) \subseteq index.vectors
              /\ Stored(first \cup second) \subseteq index'.vectors
              /\ Cardinality(index'.vectors) = Cardinality(Ids(index'))
              /\ Ids(index') = Ids(index) \cup {v.id : v \in Stored(second)}
              /\ second \subseteq first => Ids(index') = Ids(index)]_vars

\* a second run over the same 21 chunks, every batch stored, has left the
\* store with the 21 vectors it held before
C20_Witness ==
    /\ Populated
    /\ Len(call.documents) = 21
    /\ \A b \in DOMAIN call.outcomes : call.outcomes[b] = "ok"
    /\ call.before.vectors # {}
    /\ index.vectors = call.before.vectors
    /\ Cardinality(index.vectors) = 21

\* the position in the trace tr of its first call of fn, 0 when there is none
FirstCall(tr, fn) ==
    IF \E i \in 1..Len(tr) : tr[i].fn = fn
    THEN CHOOSE i \in 1..Len(tr) : tr[i].fn = fn /\ \A j \in 1..(i - 1) : tr[j].fn # fn
    ELSE 0

\* the position in the trace tr of its last call of fn, 0 when there is none
LastCall(tr, fn) ==
    IF \E i \in 1..Len(tr) : tr[i].fn = fn
    THEN CHOOSE i \in 1..Len(tr) : tr[i].fn = fn /\ \A j \in (i + 1)..Len(tr) : tr[j].fn # fn
    ELSE 0

\* C21: the documents retrieved for a streamed question are fixed before the
\* answer is generated: there is one retrieval, the context given to the
\* model lists its documents with their zero-based positions as Source IDs,
\* every citation chunk carries the title and URL of a document of that same
\* sequence (of the document at position i when its source id i is not
\* negative), and nothing is retrieved once the context is built
C21_DocumentsFrozen ==
    (call.op = "stream_response_with_citations" /\ Calls(trace, "chain.invoke") # <<>>)
    => LET docs == Calls(trace, "retrieve_with_citations")[1].docs
           context == Calls(trace, "chain.invoke")[1].input.context
       IN  /\ Len(Calls(trace, "retrieve_with_citations")) = 1
           /\ Len(context) = Len(docs)
           /\ \A i \in 1..Len(docs) :
                 /\ context[i].source_id = i - 1
                 /\ context[i].content = docs[i]
                 /\ context[i].title = Title(docs[i])
                 /\ context[i].source = Source(docs[i])
           /\ \A j \in 1..Len(CitationEvents) :
                 LET e == CitationEvents[j]
                 IN  /\ \E i \in 1..Len(context) :
                           e.title = context[i].title /\ e.url = context[i].source
                     /\ e.source_id >= 0 =>
                           /\ e.title = context[e.source_id + 1].title
                           /\ e.url = context[e.source_id + 1].source
           /\ \A fn \in {"similarity_search", "rerank", "retrieve_with_citations"} :
                 LastCall(trace, fn) < FirstCall(trace, "chain.invoke")

\* two documents were retrieved and the stream has cited the first and the
\* second of them
C21_Witness ==
    /\ call.op = "stream_response_with_citations"
    /\ Calls(trace, "retrieve_with_citations") # <<>>
    /\ Len(Calls(trace, "retrieve_with_citations")[1].docs) = 2
    /\ Len(CitationEvents) = 2
    /\ CitationEvents[1].source_id = 0
    /\ CitationEvents[2].source_id = 1

\* the command typed in the line the shell has read last
TypedCommand == Strip(Lower(call.line))

\* C22: a command changes nothing but the session configuration: handling it
\* calls no retrieval, model or memory service, forwards no question and
\* leaves the agent, the memory and the shell's recorded conversation as they
\* were; 'citations on|off' sets citations_enabled to the named value and
\* leaves reranking_enabled, 'reranking on|off' sets reranking_enabled and
\* leaves citations_enabled, and every other command leaves both; the thread
\* id of the session stays "cli_session" for every question forwarded
C22_CommandsOnlyConfigure ==
    [][/\ (call'.op = "input" /\ call'.kind = "command") =>
            LET command == Strip(Lower(call'.line))
                named == command[Len(command)] = "on"
            IN  /\ trace' = <<>>
                /\ events' = <<>>
                /\ call'.forwarded = <<>>
                /\ UNCHANGED <<memory, vector_store, graph, conversation_history>>
                /\ IF command[1] = "citations"
                   THEN citations_enabled' = named /\ UNCHANGED reranking_enabled
                   ELSE IF command[1] = "reranking"
                   THEN reranking_enabled' = named /\ UNCHANGED citations_enabled
                   ELSE UNCHANGED <<citations_enabled, reranking_enabled>>
       /\ (call'.op = "input" /\ call'.forwarded # <<>>) =>
            call'.forwarded[1].config = "cli_session"]_vars

\* 'citations off' was typed after a question had been answered with
\* reranking switched on
C22_Witness ==
    /\ call.op = "input"
    /\ call.kind = "command"
    /\ TypedCommand = <<"citations", BLANK, "off">>
    /\ ~citations_enabled
    /\ reranking_enabled
    /\ conversation_history # <<>>

\* the shell has forwarded a regular question with citations enabled
CitedQuestionTyped ==
    /\ call.op = "input"
    /\ call.forwarded # <<>>
    /\ call.forwarded[1].use_citations
    /\ ~is_conversation_history_question(call.forwarded[1].question)

\* C23: a regular question with citations enabled is worked through in
\* sequence: every retrieval call comes before the one generation call, the
\* generation call before the one memory write, and the shell reads a line
\* only at its prompt, when the pass over the line before it has ended
C23_StepsInSequence ==
    [][/\ call'.op = "input" => (cli_pc = "prompt" /\ call = NoCall)
       /\ CitedQuestionTyped' =>
            LET generation == FirstCall(trace', "chain.invoke")
                write == FirstCall(trace', "graph.invoke")
            IN  /\ cli_pc' = "handled"
                /\ Len(Calls(trace', "chain.invoke")) <= 1
                /\ Len(Calls(trace', "graph.invoke")) <= 1
                /\ FirstCall(trace', "retrieve_with_citations") = Len(trace')
                      \/ generation = FirstCall(trace', "retrieve_with_citations") + 1
                /\ \A fn \in {"similarity_search", "rerank", "retrieve_with_citations"} :
                      generation > 0 => LastCall(trace', fn) < generation
                /\ write > 0 => (generation > 0 /\ generation < write)]_vars

\* a cited question was answered after retrieval, generation and the memory
\* write, and the shell has not yet returned to its prompt
C23_Witness ==
    /\ CitedQuestionTyped
    /\ Calls(trace, "similarity_search") # <<>>
    /\ Calls(trace, "chain.invoke") # <<>>
    /\ Calls(trace, "graph.invoke") # <<>>
    /\ cli_pc = "handled"

\* the source URL of a chunk: the page of the site its document was read from
SourceUrl(chunk) == chunk.doc.page

\* C24: among the chunks of one indexing run no two share the pair of source
\* URL and chunk_index, and every chunk has 0 <= chunk_index < total_chunks,
\* with total_chunks the number of chunks of its parent document, also when
\* the fallback crawl has added documents to those of the primary crawl
C24_ChunksUniquePerSource ==
    call.op = "main" =>
        LET chunks == result.chunked
        IN  /\ \A i, j \in 1..Len(chunks) :
                  i # j => <<SourceUrl(chunks[i]), chunks[i].chunk_index>>
                             # <<SourceUrl(chunks[j]), chunks[j].chunk_index>>
            /\ \A i \in 1..Len(chunks) :
                  /\ 0 <= chunks[i].chunk_index
                  /\ chunks[i].chunk_index < chunks[i].total_chunks
                  /\ chunks[i].total_chunks
                       = Cardinality({j \in 1..Len(chunks) : chunks[j].doc = chunks[i].doc})

\* C25: once every batch has been attempted, populate_index compares the
\* final vector count of the store with the number of chunks it was given,
\* and does not report a successful population when a batch was skipped and
\* the two differ
C25_CountVerified ==
    (Populated /\ (\E b \in DOMAIN call.outcomes : call.outcomes[b] # "ok")
       /\ Cardinality(index.vectors) # Len(call.documents))
    => \A i \in 1..Len(result.printed) :
          result.printed[i].message # "Successfully populated index with"

\* C26: threads are isolated: a question asked on one thread, whatever its
\* kind and outcome, leaves the log of every other thread as it was, reads
\* and writes the memory store only for its own thread, and shows the model
\* the messages of that thread only; a call without a config works on
\* thread "1"
C26_ThreadsIsolated ==
    Asked =>
        LET t == IF call.config = "None" THEN "1" ELSE call.config
        IN  /\ \A u \in Threads \ {t} : memory[u] = call.before[u]
            /\ \A i \in 1..Len(trace) :
                  /\ trace[i].fn = "graph.get_state" => trace[i].input = t
                  /\ trace[i].fn = "graph.invoke" =>
                        /\ trace[i].thread = t
                        /\ i < Len(trace) =>
                              trace[i + 1].input = call.before[t] \o trace[i].input
            /\ IsPrefix(call.before[t], memory[t])

\* a question on thread "cli_session" was stored while thread "1" held an
\* earlier exchange
C26_Witness ==
    /\ Asked
    /\ call.config = "cli_session"
    /\ memory["cli_session"] # call.before["cli_session"]
    /\ memory["1"] # <<>>
    /\ memory["1"] = call.before["1"]

\* a regular question was asked with citations and its retrieval came back
\* empty
EmptyRetrieval ==
    /\ Asked
    /\ call.use_citations
    /\ ~is_conversation_history_question(call.question)
    /\ Calls(trace, "retrieve_with_citations") # <<>>
    /\ Calls(trace, "retrieve_with_citations")[1].docs = <<>>

\* C27: a regular question whose retrieval comes back empty leaves the
\* conversation memory as it was, in ask_question and in
\* stream_response_with_citations: no thread's log changes, and neither the
\* memory store nor the model is called
C27_EmptyRetrievalNotRecorded ==
    EmptyRetrieval =>
        /\ memory = call.before
        /\ \A fn \in {"graph.invoke", "graph.get_state", "llm.invoke", "chain.invoke"} :
              Calls(trace, fn) = <<>>

\* with a graph and an earlier exchange in the thread's log, the search of a
\* streamed question found nothing and the log is as it was
C27_Witness ==
    /\ EmptyRetrieval
    /\ call.op = "stream_response_with_citations"
    /\ graph
    /\ Calls(trace, "similarity_search") # <<>>
    /\ memory[thread_id(call.config)] # <<>>
    /\ events # <<>>
    /\ events[Len(events)].type = "error"

\* an answer was generated from retrieved documents and the memory write that
\* followed it failed
WriteFailedAfterAnswer ==
    /\ Asked
    /\ "x" \in DOMAIN call
    /\ call.x.gen.ok
    /\ Calls(trace, "chain.invoke") # <<>>
    /\ Calls(trace, "graph.invoke") # <<>>
    /\ call.x.write.kind # "ok"

\* C28: when the memory write that follows a generated answer fails,
\* ask_question does not return that answer: it returns an Answer whose text
\* is an error message and whose citation list is empty;
\* stream_response_with_citations has emitted the answer by then, and emits
\* a warning after it and no error
C28_FailedWriteHidesAnswer ==
    WriteFailedAfterAnswer =>
        IF call.op = "ask_question"
        THEN /\ result.answer = ProcessingError(ERR)
             /\ result.answer # call.x.gen.answer
             /\ result.citations = <<>>
        ELSE /\ \E i \in 1..Len(events) : events[i] = AnswerEvent(call.x.gen.answer)
             /\ events[Len(events)].type = "warning"
             /\ \A i \in 1..Len(events) : events[i].type # "error"
             /\ Len(SelectSeq(events, LAMBDA e : e.type = "warning")) = 1

\* ask_question has generated an answer with citations, the model call inside
\* the memory write failed, and the caller was given the error message
C28_Witness ==
    /\ WriteFailedAfterAnswer
    /\ call.op = "ask_question"
    /\ call.x.gen.citations # <<>>
    /\ call.x.write.kind = "model_failed"
    /\ result.answer = ProcessingError(ERR)

\* a regular question was streamed with citations over a non-empty retrieval
StreamedOverDocuments ==
    /\ call.op = "stream_response_with_citations"
    /\ call.use_citations
    /\ ~is_conversation_history_question(call.question)
    /\ "x" \in DOMAIN call
    /\ Calls(trace, "retrieve_with_citations") # <<>>
    /\ Calls(trace, "retrieve_with_citations")[1].docs # <<>>

\* the positions of the events of one type
EventsOfType(type) == {i \in 1..Len(events) : events[i].type = type}

\* C29: for a regular question with citations and a non-empty retrieval the
\* stream is: the status events, exactly one answer event, a citations_header
\* exactly when the answer's citation list is not empty, the citation events,
\* and at most one closing warning or error; no citation event comes without
\* a header before it, and nothing follows an error event
C29_EventOrder ==
    StreamedOverDocuments =>
        LET answers == EventsOfType("answer")
            headers == EventsOfType("citations_header")
            cites == EventsOfType("citation")
            closing == EventsOfType("warning") \cup EventsOfType("error")
            a == CHOOSE i \in answers : TRUE
            listed == IF call.x.gen.ok THEN call.x.gen.citations ELSE <<>>
        IN  /\ Cardinality(answers) = 1
            /\ EventsOfType("status") = 1..(a - 1)
            /\ a > 1
            /\ headers = IF listed # <<>> THEN {a + 1} ELSE {}
            /\ cites = (a + 2)..(a + 1 + Cardinality(cites))
            /\ cites # {} => headers # {}
            /\ Cardinality(cites) <= Len(listed)
            /\ closing \subseteq {Len(events)}
            /\ Len(events) = a + Cardinality(headers) + Cardinality(cites)
                               + Cardinality(closing)

\* a stream of three status events, the answer, the header, two citations and
\* the warning of a failed memory write
C29_Witness ==
    /\ StreamedOverDocuments
    /\ Len(events) = 8
    /\ events[4].type = "answer"
    /\ events[5].type = "citations_header"
    /\ events[6].type = "citation"
    /\ events[7].type = "citation"
    /\ events[8].type = "warning"

\* the contents of the answer chunks of a stream
AnswersOf(evs) == SelectSeq(evs, LAMBDA e : e.type = "answer")

\* a stream has delivered a non-empty answer and no error chunk
Delivered(evs) ==
    /\ AnswersOf(evs) # <<>>
    /\ AnswersOf(evs)[Len(AnswersOf(evs))].content # <<>>
    /\ \A i \in 1..Len(evs) : evs[i].type # "error"

\* C30: the shell's recorded conversation grows by one entry, the question
\* with the answer delivered, when the agent's stream for a question has
\* delivered a non-empty answer and no error chunk, and is left as it was by
\* every other question, by every command and empty line, and by every other
\* step of the shell; so it never holds more entries than questions were asked
C30_RecordGrowsWithAnswers ==
    [][IF call'.op = "input" /\ call'.kind = "question" /\ Delivered(events')
       THEN /\ Len(conversation_history') = Len(conversation_history) + 1
            /\ SubSeq(conversation_history', 1, Len(conversation_history))
                 = conversation_history
            /\ LET entry == conversation_history'[Len(conversation_history')]
               IN  /\ entry.question = call'.forwarded[1].question
                   /\ entry.answer = AnswersOf(events')[Len(AnswersOf(events'))].content
                   /\ Len(entry.citations) = Len(SelectSeq(events',
                                                 LAMBDA e : e.type = "citation"))
       ELSE UNCHANGED conversation_history]_vars

\* after a recorded question, a question whose answer was followed by an
\* error chunk has left the record at one entry
C30_Witness ==
    /\ call.op = "input"
    /\ call.kind = "question"
    /\ AnswersOf(events) # <<>>
    /\ AnswersOf(events)[1].content # <<>>
    /\ events[Len(events)].type = "error"
    /\ Len(conversation_history) = 1
    /\ conversation_history[1].question = FIRST_QUESTION

====
